---- MODULE Spec2Model ----
(***************************************************************************)
(* Deal discovery and de-duplication pipeline of the NFT bot.              *)
(*                                                                         *)
(* Two scan loops exist in the repository:                                 *)
(*   - scanner.py : scanner_loop -> scanner_tick -> _notify_user, with the *)
(*     global ledger app_found_deals (was_deal_seen / mark_deal_seen);     *)
(*   - handlers.py: scanner_loop, with the per-user ledger                 *)
(*     app_scanner_sent (mark_sent) and send_item_alert.                   *)
(* The variable impl records which of the two loops the process runs.      *)
(* Every await of the loops is a step of its own; the chat commands        *)
(* (/scanner_on, /scanner_off, /set_discount) interleave with a cycle at   *)
(* the points where the loop is about to read what they write.             *)
(*                                                                         *)
(* scanner.py calls get_scanner_users, get_or_create_scanner_settings,     *)
(* was_deal_seen and mark_deal_seen by the signatures its import block     *)
(* names (no pool argument), while db.py declares each with a leading pool *)
(* parameter.  Against this db.py every such call raises TypeError, which  *)
(* scanner.py catches like any other database failure: that is the         *)
(* ok = FALSE branch of the scanner.py actions.  The ok = TRUE branch is   *)
(* the call completing as the import block of scanner.py describes it.     *)
(***************************************************************************)
EXTENDS Integers, Sequences, FiniteSets, TLC

(***************************************************************************)
(* Program constants.                                                      *)
(***************************************************************************)
MAX_DEALS_PER_USER == 3
DEFAULT_TICK_SECONDS == 30
SCAN_INTERVAL_SEC == 60
SCAN_LOOKBACK_MIN == 180

\* Python None / SQL NULL in a numeric field (prices are never negative).
Null == -1
\* Python None in a text field, written as str() prints it.
None == "None"
\* A numeric key the dict does not hold at all: d.get(key) is None, while
\* d.get(key, default) is the default.
Missing == -3
\* A value that float() and int() reject, e.g. the text "n/a".
BadNumber == -2

Users == {1, 2}

(***************************************************************************)
(* The listings the sources can return.  L1 and L2 are the same lot (same  *)
(* id, same url) at two prices, 40% and 60% under the floor; L3 is another *)
(* lot, 20% under the floor, without url and image.  Prices are TON; the   *)
(* floor of the collection is 10.                                          *)
(***************************************************************************)
Listing(id, price, url, image) ==
    [id |-> id, nft_address |-> "n" \o id, market |-> "Getgems",
     price_ton |-> price, fair_price_ton |-> 10, floor_ton |-> 10,
     discount_pct |-> Null, discount |-> Null,
     url |-> url, collection |-> "c1", name |-> "nft " \o id,
     image |-> image, listed_at |-> Null]

L1 == Listing("a", 6, "https://m/a", "https://img/a")
L2 == Listing("a", 4, "https://m/a", "https://img/a")
L3 == Listing("b", 8, None, None)

Universe == {L1, L2, L3}

\* The listings on sale during one run: the same lot at two prices, or two
\* different lots.
Markets == {{L1, L2}, {L1, L3}}

\* Current time in minutes since the epoch (freshness is relative to it).
NowMin == 1000

(***************************************************************************)
(* Python helpers.                                                         *)
(***************************************************************************)
Max(a, b) == IF a >= b THEN a ELSE b

\* Truthiness of a text value: None and "" are falsy.
Truthy(s) == s # None /\ s # ""

\* str() of a text-or-None value.
PyStr(s) == IF s = None THEN "None" ELSE s

\* str() of a float-or-None value; the floats of the model are whole numbers.
FloatStr(x) == IF x = Null THEN "None" ELSE ToString(x) \o ".0"

\* deal.get("price_ton") or 0.0
PriceOrZero(deal) == IF deal.price_ton \in {Null, Missing} THEN 0 ELSE deal.price_ton

(***************************************************************************)
(* scanner.py: identity, discount and filters.                             *)
(***************************************************************************)
\* The identity with the price left out of the hashed text.
hash_deal_without_price(deal) ==
    PyStr(deal.id) \o "|" \o PyStr(deal.nft_address) \o "|" \o PyStr(deal.market)

\* sha256 is taken to be injective: the identity is the hashed text itself.
hash_deal(deal) ==
    PyStr(deal.id) \o "|" \o PyStr(deal.nft_address) \o "|"
        \o FloatStr(deal.price_ton) \o "|" \o PyStr(deal.market)

\* Percent, whole numbers (the listings of the model give exact quotients).
calc_discount_pct(deal) ==
    LET fair == deal.fair_price_ton
        price == PriceOrZero(deal)
    IN  IF fair # Null /\ fair > 0
          THEN Max(0, ((fair - price) * 100) \div fair)
          ELSE IF deal.discount_pct = Null THEN 0 ELSE deal.discount_pct

Lower(s) == IF s = "C1" THEN "c1" ELSE s

\* The matcher with the discount comparison turned round: it keeps the
\* listings whose discount is at most the threshold.
passes_filters_at_most(deal, st) ==
    LET min_disc == st.min_discount
        disc == calc_discount_pct(deal)
        p == PriceOrZero(deal)
        col == Lower(IF Truthy(deal.collection) THEN deal.collection ELSE "")
    IN  /\ ~(disc > min_disc)
        /\ ~(st.max_price_ton # Null /\ p > st.max_price_ton)
        /\ ~(st.collections # {} /\ col # ""
                /\ col \notin {Lower(c) : c \in st.collections})

\* st has no min_price_ton key (db.get_or_create_scanner_settings), so that
\* branch of the source is never taken.
passes_filters(deal, st) ==
    LET min_disc == st.min_discount
        disc == calc_discount_pct(deal)
        p == PriceOrZero(deal)
        col == Lower(IF Truthy(deal.collection) THEN deal.collection ELSE "")
    IN  /\ ~(disc < min_disc)
        /\ ~(st.max_price_ton # Null /\ p > st.max_price_ton)
        /\ ~(st.collections # {} /\ col # ""
                /\ col \notin {Lower(c) : c \in st.collections})

(***************************************************************************)
(* handlers.py: item identity, discount, freshness and filters.            *)
(***************************************************************************)
\* str(it.get("id") or f"{collection}-{name}-{url}")
item_id_of(it) ==
    IF Truthy(it.id) THEN it.id
    ELSE PyStr(it.collection) \o "-" \o PyStr(it.name) \o "-" \o PyStr(it.url)

\* Optional[Decimal]: << >> is None, <<d>> a known discount (may be negative).
item_discount(item) ==
    IF item.discount # Null THEN <<item.discount>>
    ELSE IF item.price_ton \notin {Null, Missing} /\ item.floor_ton # Null
            /\ item.floor_ton > 0
      THEN <<((item.floor_ton - item.price_ton) * 100) \div item.floor_ton>>
      ELSE << >>

\* int(ts) raising (a timestamp that is not a number) counts as fresh.
item_fresh_enough(item) ==
    IF item.listed_at = Null \/ item.listed_at = 0 THEN TRUE
    ELSE IF item.listed_at = BadNumber THEN TRUE
    ELSE NowMin - item.listed_at <= SCAN_LOOKBACK_MIN

item_matches(it, st) ==
    LET disc == item_discount(it)
        item_col == Lower(IF Truthy(it.collection) THEN it.collection ELSE "")
    IN  /\ item_fresh_enough(it)
        /\ disc # << >> /\ ~(disc[1] < st.min_discount)
        /\ st.max_price_ton # Null =>
              \* Decimal(str(it.get("price_ton", "0"))): "0" when the key is
              \* absent, InvalidOperation (return False) when it holds None
              (it.price_ton # Null /\ ~(PriceOrZero(it) > st.max_price_ton))
        /\ ~(st.collections # {} /\ item_col # ""
                /\ item_col \notin {Lower(c) : c \in st.collections})

(***************************************************************************)
(* The database.                                                           *)
(***************************************************************************)
\* app_scanner_settings column defaults and the dict returned on creation.
DefaultSettings == [min_discount |-> 25, max_price_ton |-> Null, collections |-> {}]

\* SELECT 1 FROM app_found_deals WHERE deal_id = $1
was_deal_seen(table, deal_id) == \E r \in table : r.deal_id = deal_id

\* The row mark_deal_seen inserts for a deal (the columns with constraints).
found_deal_row(d) == [deal_id |-> hash_deal(d), url |-> d.url]

\* INSERT ... ON CONFLICT (deal_id) DO NOTHING raises unique_violation when
\* another row already holds the same non-NULL url (url TEXT UNIQUE).
url_conflict(table, row) ==
    /\ ~was_deal_seen(table, row.deal_id)
    /\ row.url # None
    /\ \E r \in table : r.url = row.url

mark_deal_seen(table, row) ==
    IF was_deal_seen(table, row.deal_id) \/ url_conflict(table, row)
      THEN table
      ELSE table \cup {row}

\* The INSERT when the primary key is on (user_id, item_id, sent_at): a row
\* with a new timestamp is always accepted.
mark_sent_inserts_timestamped(table, user_id, item_id) == TRUE

\* INSERT INTO app_scanner_sent: TRUE when the row was inserted, FALSE when
\* the primary key (user_id, item_id) rejects it.
mark_sent_inserts(table, user_id, item_id) == <<user_id, item_id>> \notin table

\* Every order in which a SELECT without ORDER BY may return the rows.
Orders(S) == {q \in [1..Cardinality(S) -> S] : \A i, j \in 1..Cardinality(S) :
                                                    q[i] = q[j] => i = j}

\* What one fetch may return: distinct listings on sale, in any order.
Batches(onsale) == UNION {Orders(S) : S \in SUBSET onsale}

(***************************************************************************)
(* State.                                                                  *)
(***************************************************************************)
VARIABLES
    impl,                  \* "scanner" (scanner.py loop) or "handlers" (handlers.py loop)
    market,                \* the listings on sale in this run
    app_users,             \* table app_users: user_id -> scanner_enabled (no row reads as FALSE)
    app_scanner_settings,  \* table app_scanner_settings: user_id -> settings row
    app_found_deals,       \* table app_found_deals (scanner.py ledger)
    app_scanner_sent,      \* table app_scanner_sent (handlers.py ledger)
    pc,                    \* where the scan loop stands
    users,                 \* users still to process in this cycle, current one first
    st,                    \* settings loaded for the current user
    all_deals,             \* the batch fetched in this cycle
    deals,                 \* listings still to process for the current user
    sent,                  \* _notify_user's counter of messages sent
    lookup,                \* answer of the ledger for the current listing
    outcome,               \* result of the delivery attempt just made
    sleep_seconds,         \* duration of the current sleep
    first_cycle,           \* history: the loop has not yet finished a cycle
                           \*          since the process started
    alerted,               \* history: (user, listing) pairs delivered so far
    attempted,             \* history: listings with a delivery attempt in this cycle
    rejected,              \* history: << >> until a user's filter has run in this
                           \*          cycle, then <<the listings no filter let through>>
    passed,                \* history: listings an earlier cycle ended without any
                           \*          filter letting them through, unrecorded since
    probe                  \* inputs and results of the pure functions under test

env == <<impl, market, probe>>
db == <<app_users, app_scanner_settings, app_found_deals, app_scanner_sent>>
loop == <<pc, users, st, all_deals, deals, sent, lookup, outcome, sleep_seconds,
         first_cycle>>
history == <<alerted, attempted, rejected, passed>>
vars == <<env, db, loop, history>>

Enabled == {u \in Users : app_users[u]}

\* get_or_create_scanner_settings: the dict returned and the table afterwards.
settings_of(table, user_id) ==
    IF user_id \in DOMAIN table THEN table[user_id] ELSE DefaultSettings

settings_created(table, user_id) ==
    IF user_id \in DOMAIN table THEN table
    ELSE [u \in DOMAIN table \cup {user_id} |->
            IF u = user_id THEN DefaultSettings ELSE table[u]]

\* History: the filter of one more user has run over the batch.
narrowed(rej, turned_down) ==
    IF rej = << >> THEN <<turned_down>> ELSE <<rej[1] \cap turned_down>>

\* History: the ledger of the running loop holds an entry for the listing.
recorded(d) ==
    IF impl = "scanner"
      THEN was_deal_seen(app_found_deals, hash_deal(d))
      ELSE \E u \in Users : <<u, item_id_of(d)>> \in app_scanner_sent

\* History: passed at the end of a cycle; a cycle that ran to its last user
\* adds the listings no filter let through.
cycle_end_passed(complete) ==
    {d \in passed \cup (IF complete /\ rejected # << >> THEN rejected[1] ELSE {}) :
        ~recorded(d)}

\* History: a loop step that brings the loop back to its sleep ends a cycle.
cycle_step == first_cycle' = (first_cycle /\ pc' # "sleep")

\* The state after construction: empty tables, the loop about to start.
Start ==
    /\ app_users = [u \in Users |-> FALSE]
    /\ app_scanner_settings = << >>
    /\ app_found_deals = {}
    /\ app_scanner_sent = {}
    /\ pc = "sleep"
    /\ users = << >>
    /\ st = DefaultSettings
    /\ all_deals = << >>
    /\ deals = << >>
    /\ sent = 0
    /\ lookup = "none"
    /\ outcome = "none"
    /\ sleep_seconds = IF impl = "scanner" THEN DEFAULT_TICK_SECONDS ELSE 3
    /\ first_cycle = TRUE
    /\ alerted = {}
    /\ attempted = {}
    /\ rejected = << >>
    /\ passed = {}

Init ==
    /\ impl \in {"scanner", "handlers"}
    /\ market \in Markets
    /\ probe = << >>
    /\ Start

(***************************************************************************)
(* Chat commands (handlers.py).                                            *)
(***************************************************************************)
DiscountInputs == {0, 25}

\* INSERT ... ON CONFLICT (user_id) DO UPDATE SET scanner_enabled=TRUE
scanner_on_handler(u) ==
    /\ app_users' = [app_users EXCEPT ![u] = TRUE]
    /\ UNCHANGED <<env, app_scanner_settings, app_found_deals, app_scanner_sent,
                   loop, history>>

\* /verify: once the payment is found on chain the user is switched on by
\* the same upsert as /scanner_on; every other outcome (no such invoice,
\* already paid, not found, expired, a failing save) leaves app_users and
\* app_scanner_settings alone.
verify_handler(u, paid) ==
    /\ app_users' = IF paid THEN [app_users EXCEPT ![u] = TRUE] ELSE app_users
    /\ UNCHANGED <<env, app_scanner_settings, app_found_deals, app_scanner_sent,
                   loop, history>>

\* A /scanner_off that also drops the user's settings row.
scanner_off_handler_forgetting(u) ==
    /\ app_users' = [app_users EXCEPT ![u] = FALSE]
    /\ app_scanner_settings' =
          [w \in DOMAIN app_scanner_settings \ {u} |-> app_scanner_settings[w]]
    /\ UNCHANGED <<env, app_found_deals, app_scanner_sent, loop, history>>

\* UPDATE app_users SET scanner_enabled=FALSE WHERE user_id=$1
scanner_off_handler(u) ==
    /\ app_users' = [app_users EXCEPT ![u] = FALSE]
    /\ UNCHANGED <<env, app_scanner_settings, app_found_deals, app_scanner_sent,
                   loop, history>>

\* UPDATE app_scanner_settings SET ... WHERE user_id=$n: no row, no change.
update_scanner_settings(table, u, field, val) ==
    IF u \in DOMAIN table THEN [table EXCEPT ![u][field] = val] ELSE table

\* The column max_price_ton NUMERIC(20,9) keeps nine decimals and rounds the
\* rest, half away from zero.  The argument of /set_maxprice is counted in
\* tenths of the column's last decimal, the stored value in units of it.
numeric_20_9(val) == (val + 5) \div 10

\* /set_maxprice: the table afterwards.  Null stands for the arguments "-",
\* "none" and "нет", which clear the ceiling; BadNumber for a text Decimal()
\* rejects; a value that is not positive is turned down with the same answer.
set_maxprice(table, u, val) ==
    IF val = Null THEN update_scanner_settings(table, u, "max_price_ton", Null)
    ELSE IF val = BadNumber \/ val <= 0 THEN table
    ELSE update_scanner_settings(table, u, "max_price_ton", numeric_20_9(val))

\* /set_collections: the table afterwards.  The empty set stands for the
\* arguments that clear the list ("none", "-", nothing but commas) and for
\* the NULL they store.
set_collections(table, u, cols) ==
    update_scanner_settings(table, u, "collections", cols)

\* /set_discount: the table afterwards.  A text Decimal() rejects and a value
\* outside 0..100 are turned down.
set_discount(table, u, val) ==
    IF val = BadNumber \/ val < 0 \/ val > 100 THEN table
    ELSE update_scanner_settings(table, u, "min_discount", val)

\* /set_discount N
set_discount_handler(u, val) ==
    /\ app_scanner_settings' = set_discount(app_scanner_settings, u, val)
    /\ UNCHANGED <<env, app_users, app_found_deals, app_scanner_sent, loop, history>>

\* The loops read app_users and app_scanner_settings only when they stand at
\* one of these points; a command that arrives during another await of the
\* cycle has the effect of one arriving right before the next of them.
ReadPoints == {"sleep", "user", "calc", "h_user"}

Command ==
    /\ pc \in ReadPoints
    /\ \E u \in Users :
        \/ scanner_on_handler(u)
        \/ scanner_off_handler(u)
        \/ \E paid \in BOOLEAN : verify_handler(u, paid)
        \/ \E val \in DiscountInputs : set_discount_handler(u, val)

(***************************************************************************)
(* scanner.py: scanner_loop, scanner_tick, _notify_user.                   *)
(* Every database call and every send either returns or raises; the        *)
(* except clauses of the source decide what a raise leads to.  Locals and  *)
(* the per-cycle history are cleared when their scope ends.                *)
(***************************************************************************)
SelectDeals(seq, settings) == SelectSeq(seq, LAMBDA d : passes_filters(d, settings))

Range(seq) == {seq[i] : i \in DOMAIN seq}

\* scanner_tick, steps 1 and 2: the enabled users, then the merged sources.
\* A failing get_scanner_users, no enabled user or an empty batch end the tick.
scanner_tick ==
    /\ impl = "scanner" /\ pc = "sleep"
    /\ \E ok \in BOOLEAN, order \in Orders(Enabled), batch \in Batches(market) :
          IF ok /\ order # << >> /\ batch # << >>
            THEN /\ users' = order
                 /\ all_deals' = batch
                 /\ pc' = "user"
            ELSE /\ users' = << >>
                 /\ all_deals' = << >>
                 /\ pc' = "calc"
    /\ UNCHANGED <<env, db, st, deals, sent, lookup, outcome, sleep_seconds,
                   history>>
    /\ cycle_step

\* scanner_tick, step 3: the next user, the settings, the filter.
tick_user ==
    /\ impl = "scanner" /\ pc = "user"
    /\ IF users = << >>
         THEN /\ pc' = "calc"
              /\ all_deals' = << >>
              /\ attempted' = {}
              /\ rejected' = << >>
              /\ passed' = cycle_end_passed(TRUE)
              /\ UNCHANGED <<app_scanner_settings, users, st, deals>>
         ELSE \E ok \in BOOLEAN :
                IF ~ok
                  THEN \* get_or_create_scanner_settings raised: continue
                       /\ users' = Tail(users)
                       /\ UNCHANGED <<app_scanner_settings, pc, st, all_deals,
                                      deals, attempted, rejected, passed>>
                  ELSE LET u == Head(users)
                           loaded == settings_of(app_scanner_settings, u)
                           filtered == SelectDeals(all_deals, loaded)
                       IN  /\ app_scanner_settings' =
                                 settings_created(app_scanner_settings, u)
                           /\ IF filtered = << >>
                                THEN /\ users' = Tail(users)
                                     /\ UNCHANGED <<pc, st, deals>>
                                ELSE /\ st' = loaded
                                     /\ deals' = filtered
                                     /\ pc' = "lookup"
                                     /\ UNCHANGED users
                           /\ rejected' = narrowed(rejected,
                                 {d \in Range(all_deals) : ~passes_filters(d, loaded)})
                           /\ UNCHANGED <<all_deals, attempted, passed>>
    /\ UNCHANGED <<env, app_users, app_found_deals, app_scanner_sent,
                   sent, lookup, outcome, sleep_seconds, alerted>>
    /\ cycle_step

\* _notify_user, top of the loop: the cap, the identity, was_deal_seen.
notify_lookup ==
    /\ impl = "scanner" /\ pc = "lookup"
    /\ IF deals = << >> \/ sent >= MAX_DEALS_PER_USER
         THEN /\ pc' = "user"
              /\ users' = Tail(users)
              /\ deals' = << >>
              /\ st' = DefaultSettings
              /\ sent' = 0
              /\ lookup' = "none"
         ELSE \E ok \in BOOLEAN :
                IF ok /\ was_deal_seen(app_found_deals, hash_deal(Head(deals)))
                  THEN \* continue
                       /\ deals' = Tail(deals)
                       /\ lookup' = "seen"
                       /\ UNCHANGED <<pc, users, st, sent>>
                  ELSE \* not seen, or the lookup raised: send all the same
                       /\ lookup' = IF ok THEN "unseen" ELSE "raised"
                       /\ pc' = "send"
                       /\ UNCHANGED <<users, st, sent, deals>>
    /\ UNCHANGED <<env, db, all_deals, outcome, sleep_seconds, history>>
    /\ cycle_step

\* _notify_user: bot.send_message; a failure is logged and swallowed.
notify_send ==
    /\ impl = "scanner" /\ pc = "send"
    /\ attempted' = attempted \cup {Head(deals)}
    /\ \E ok \in BOOLEAN :
          IF ok THEN /\ sent' = sent + 1
                     /\ outcome' = "delivered"
                     /\ alerted' = alerted \cup {<<Head(users), Head(deals)>>}
                ELSE /\ outcome' = "failed"
                     /\ UNCHANGED <<sent, alerted>>
    /\ pc' = "mark"
    /\ UNCHANGED <<env, db, users, st, all_deals, deals, lookup,
                   sleep_seconds, rejected, passed>>
    /\ cycle_step

\* _notify_user: mark_deal_seen; whatever it raises is swallowed.
notify_mark ==
    /\ impl = "scanner" /\ pc = "mark"
    /\ \E ok \in BOOLEAN :
          app_found_deals' =
              IF ok THEN mark_deal_seen(app_found_deals, found_deal_row(Head(deals)))
                    ELSE app_found_deals
    /\ deals' = Tail(deals)
    /\ lookup' = "none"
    /\ outcome' = "none"
    /\ pc' = "lookup"
    /\ UNCHANGED <<env, app_users, app_scanner_settings, app_scanner_sent,
                   users, st, all_deals, sent, sleep_seconds, history>>
    /\ cycle_step

\* scanner_loop._calc_sleep_default: the settings of the enabled users are
\* read (and created); db rows carry no poll_seconds, so each user
\* contributes 60.  A raise gives DEFAULT_TICK_SECONDS.
calc_sleep_default ==
    /\ impl = "scanner" /\ pc = "calc"
    /\ \E ok \in BOOLEAN :
          IF ok
            THEN /\ app_scanner_settings' =
                       [u \in DOMAIN app_scanner_settings \cup Enabled |->
                           settings_of(app_scanner_settings, u)]
                 /\ sleep_seconds' = IF Enabled # {} THEN Max(10, 60)
                                                     ELSE DEFAULT_TICK_SECONDS
            ELSE /\ sleep_seconds' = DEFAULT_TICK_SECONDS
                 /\ UNCHANGED app_scanner_settings
    /\ pc' = "sleep"
    /\ UNCHANGED <<env, app_users, app_found_deals, app_scanner_sent, users,
                   st, all_deals, deals, sent, lookup, outcome, history>>
    /\ cycle_step

ScannerStep ==
    \/ scanner_tick
    \/ tick_user
    \/ notify_lookup
    \/ notify_send
    \/ notify_mark
    \/ calc_sleep_default

(***************************************************************************)
(* handlers.py: scanner_loop, mark_sent, send_item_alert.                  *)
(* The whole cycle sits in one try: whatever raises inside it ends the     *)
(* cycle, and the loop sleeps SCAN_INTERVAL_SEC.                           *)
(***************************************************************************)
\* mark_sent on a table without the primary key (user_id, item_id).
mark_sent_without_key(table, db_ok, user_id, item_id) == db_ok

\* mark_sent: TRUE when the INSERT went through; FALSE on whatever it raised
\* (the primary key's rejection or an unreachable database alike).
mark_sent(table, db_ok, user_id, item_id) ==
    db_ok /\ mark_sent_inserts(table, user_id, item_id)

\* item.get("image") and image.startswith("http")
has_image(item) ==
    /\ Truthy(item.image)
    /\ Len(item.image) >= 4 /\ SubSeq(item.image, 1, 4) = "http"

\* fetch_listings (empty on every failure), then the enabled users.
handlers_fetch ==
    /\ impl = "handlers" /\ pc = "sleep"
    /\ sleep_seconds' = SCAN_INTERVAL_SEC
    /\ \E ok \in BOOLEAN, order \in Orders(Enabled), items \in Batches(market) :
          IF items # << >> /\ ok /\ order # << >>
            THEN /\ users' = order
                 /\ all_deals' = items
                 /\ pc' = "h_user"
            ELSE \* empty feed, SELECT raised, or nobody enabled: sleep
                 /\ users' = << >>
                 /\ all_deals' = << >>
                 /\ pc' = "sleep"
    /\ UNCHANGED <<env, db, st, deals, sent, lookup, outcome, history>>
    /\ cycle_step

\* for u in users: st = await get_or_create_scanner_settings(pool, uid)
handlers_user ==
    /\ impl = "handlers" /\ pc = "h_user"
    /\ IF users = << >> 
         THEN /\ pc' = "sleep"
              /\ all_deals' = << >>
              /\ attempted' = {}
              /\ rejected' = << >>
              /\ passed' = cycle_end_passed(TRUE)
              /\ UNCHANGED <<app_scanner_settings, users, st, deals>>
         ELSE \E ok \in BOOLEAN :
                IF ~ok
                  THEN \* the read raised: the cycle is over
                       /\ pc' = "sleep"
                       /\ users' = << >>
                       /\ all_deals' = << >>
                       /\ attempted' = {}
                       /\ rejected' = << >>
                       /\ passed' = cycle_end_passed(FALSE)
                       /\ UNCHANGED <<app_scanner_settings, st, deals>>
                  ELSE /\ st' = settings_of(app_scanner_settings, Head(users))
                       /\ app_scanner_settings' =
                             settings_created(app_scanner_settings, Head(users))
                       /\ deals' = all_deals
                       /\ pc' = "h_item"
                       /\ rejected' = narrowed(rejected,
                             {d \in Range(all_deals) : ~item_matches(d, st')})
                       /\ UNCHANGED <<users, all_deals, attempted, passed>>
    /\ UNCHANGED <<env, app_users, app_found_deals, app_scanner_sent,
                   sent, lookup, outcome, sleep_seconds, alerted>>
    /\ cycle_step

\* for it in items: item_id, _item_matches, mark_sent
handlers_item ==
    /\ impl = "handlers" /\ pc = "h_item"
    /\ outcome' = "none"
    /\ IF deals = << >>
         THEN /\ users' = Tail(users)
              /\ st' = DefaultSettings
              /\ pc' = "h_user"
              /\ lookup' = "none"
              /\ UNCHANGED <<app_scanner_sent, deals>>
         ELSE LET it == Head(deals)
                  item_id == item_id_of(it)
              IN  IF item_id = "" \/ ~item_matches(it, st)
                    THEN /\ deals' = Tail(deals)
                         /\ lookup' = "none"
                         /\ UNCHANGED <<app_scanner_sent, users, st, pc>>
                    ELSE \E db_ok \in BOOLEAN :
                           IF mark_sent(app_scanner_sent, db_ok, Head(users), item_id)
                             THEN /\ app_scanner_sent' =
                                        app_scanner_sent \cup {<<Head(users), item_id>>}
                                  /\ lookup' = "unseen"
                                  /\ pc' = "h_send"
                                  /\ UNCHANGED <<users, st, deals>>
                             ELSE \* not inserted: continue
                                  /\ deals' = Tail(deals)
                                  /\ lookup' = IF db_ok THEN "seen" ELSE "raised"
                                  /\ UNCHANGED <<app_scanner_sent, users, st, pc>>
    /\ UNCHANGED <<env, app_users, app_scanner_settings, app_found_deals,
                   all_deals, sent, sleep_seconds, history>>
    /\ cycle_step

\* send_item_alert called outside any try: a failing send_message ends the
\* loop task.
send_item_alert_uncaught ==
    /\ impl = "handlers" /\ pc = "h_send"
    /\ lookup' = "none"
    /\ \E how \in {"photo", "text", "raise"} :
          /\ how = "photo" => has_image(Head(deals))
          /\ IF how = "raise"
               THEN /\ outcome' = "failed"
                    /\ pc' = "ended"
                    /\ UNCHANGED <<users, st, all_deals, deals, history>>
               ELSE /\ outcome' = "delivered"
                    /\ alerted' = alerted \cup {<<Head(users), Head(deals)>>}
                    /\ attempted' = attempted \cup {Head(deals)}
                    /\ deals' = Tail(deals)
                    /\ pc' = "h_item"
                    /\ UNCHANGED <<users, st, all_deals, rejected, passed>>
    /\ UNCHANGED <<env, db, sent, sleep_seconds>>
    /\ cycle_step

\* send_item_alert: send_photo when there is an image, send_message when
\* there is none or the photo failed; a failing send_message propagates
\* to the except of scanner_loop.
send_item_alert ==
    /\ impl = "handlers" /\ pc = "h_send"
    /\ lookup' = "none"
    /\ \E how \in {"photo", "text", "raise"} :
          /\ how = "photo" => has_image(Head(deals))
          /\ IF how = "raise"
               THEN /\ outcome' = "failed"
                    /\ pc' = "sleep"
                    /\ users' = << >>
                    /\ deals' = << >>
                    /\ all_deals' = << >>
                    /\ st' = DefaultSettings
                    /\ attempted' = {}
                    /\ rejected' = << >>
                    /\ passed' = cycle_end_passed(FALSE)
                    /\ UNCHANGED alerted
               ELSE /\ outcome' = "delivered"
                    /\ alerted' = alerted \cup {<<Head(users), Head(deals)>>}
                    /\ attempted' = attempted \cup {Head(deals)}
                    /\ deals' = Tail(deals)
                    /\ pc' = "h_item"
                    /\ UNCHANGED <<users, st, all_deals, rejected, passed>>
    /\ UNCHANGED <<env, db, sent, sleep_seconds>>
    /\ cycle_step

HandlersStep ==
    \/ handlers_fetch
    \/ handlers_user
    \/ handlers_item
    \/ send_item_alert

Next == Command \/ ScannerStep \/ HandlersStep

Spec == Init /\ [][Next]_vars

(***************************************************************************)
(* _hash_deal on its own: three listings are drawn, as fetch cycles may    *)
(* return them, and their identities computed.                             *)
(***************************************************************************)
HashDeals ==
    [id : {"a", None}, nft_address : {"na", None}, price_ton : {Null, 4, 6},
     market : {"Getgems", "TonAPI"}, url : {"https://m/a", None}]

HashInit ==
    /\ impl = "scanner"
    /\ market = {L1, L2}
    /\ probe \in [fetched : [1..3 -> HashDeals], identity : {<< >>}]
    /\ Start

hash_pair ==
    /\ probe.identity = << >>
    /\ probe' = [probe EXCEPT !.identity = [i \in 1..3 |-> hash_deal(probe.fetched[i])]]
    /\ UNCHANGED <<impl, market, db, loop, history>>

SpecHash == HashInit /\ [][hash_pair]_vars

(***************************************************************************)
(* send_item_alert on its own, one Bot call per step, as the body of the   *)
(* try of handlers.scanner_loop runs it.  probe holds the item, the chat,  *)
(* the position (at), the Bot calls made so far and what the process has   *)
(* written to its log.                                                     *)
(***************************************************************************)
\* f"{float(x):.3f}" and f"{float(x):.1f}" of a whole number.
Fixed3(x) == ToString(x) \o ".000"
Fixed1(x) == ToString(x) \o ".0"

fmt_item_caption(it) ==
    LET name == IF Truthy(it.name) THEN it.name ELSE "NFT"
        coll == IF Truthy(it.collection) THEN it.collection ELSE "-"
        disc == item_discount(it)
        url == IF Truthy(it.url) THEN it.url ELSE "-"
    IN  "NFT " \o name \o "\nCollection: " \o coll
          \o (IF it.price_ton \notin {Null, Missing}
                THEN "\nPrice: " \o Fixed3(it.price_ton) \o " TON" ELSE "")
          \o (IF it.floor_ton # Null
                THEN "\nFloor: " \o Fixed3(it.floor_ton) \o " TON" ELSE "")
          \o (IF disc # << >>
                THEN "\nDiscount: " \o Fixed1(disc[1]) \o "%" ELSE "")
          \o "\n" \o url

\* Items with every kind of image field, with and without price and
\* source discount.
AlertItems ==
    {[Listing("a", p, "https://m/a", img) EXCEPT !.discount = dsc] :
        p \in {Null, 6}, dsc \in {Null, 40},
        img \in {None, "", "ipfs://a", "https://img/a"}}

AlertInit ==
    /\ impl = "handlers"
    /\ market = {L1, L2}
    /\ probe \in [item : AlertItems, user_id : Users, at : {"call"},
                  sends : {<< >>}, log : {<< >>}]
    /\ Start

\* bot.send_photo(user_id, photo=image, caption=caption) in its try.
alert_photo ==
    /\ probe.at = "call" /\ has_image(probe.item)
    /\ \E ok \in BOOLEAN :
          probe' = [probe EXCEPT
              !.sends = Append(@, [method |-> "send_photo", chat_id |-> probe.user_id,
                                   text |-> fmt_item_caption(probe.item), ok |-> ok]),
              !.at = IF ok THEN "returned" ELSE "photo_failed"]
    /\ UNCHANGED <<impl, market, db, loop, history>>

\* bot.send_message(user_id, caption): nothing catches its exception
\* inside send_item_alert.
alert_message ==
    /\ \/ probe.at = "photo_failed"
       \/ probe.at = "call" /\ ~has_image(probe.item)
    /\ \E ok \in BOOLEAN :
          probe' = [probe EXCEPT
              !.sends = Append(@, [method |-> "send_message", chat_id |-> probe.user_id,
                                   text |-> fmt_item_caption(probe.item), ok |-> ok]),
              !.at = IF ok THEN "returned" ELSE "raised"]
    /\ UNCHANGED <<impl, market, db, loop, history>>

\* scanner_loop after the call returned: on to the next item.
alert_returned ==
    /\ probe.at = "returned"
    /\ probe' = [probe EXCEPT !.at = "next_item"]
    /\ UNCHANGED <<impl, market, db, loop, history>>

\* except Exception: await asyncio.sleep(SCAN_INTERVAL_SEC) -- the clause
\* writes nothing to the log and keeps nothing of the exception.
alert_except ==
    /\ probe.at = "raised"
    /\ probe' = [probe EXCEPT !.at = "sleep"]
    /\ UNCHANGED <<impl, market, db, loop, history>>

AlertNext == alert_photo \/ alert_message \/ alert_returned \/ alert_except

SpecAlert == AlertInit /\ [][AlertNext]_vars

(***************************************************************************)
(* The loops under fair scheduling.  The event loop resumes a task once    *)
(* the await it stands at has completed, and every await of the two loops  *)
(* completes or raises (sleeps are finite, httpx calls carry a timeout):   *)
(* a loop step that stays possible is eventually taken.  Users switch the  *)
(* scanner on while the loop runs; nothing obliges them to.                *)
(***************************************************************************)
LiveCommand == pc \in ReadPoints /\ \E u \in Users : scanner_on_handler(u)

LiveNext == LiveCommand \/ ScannerStep \/ HandlersStep

SpecLive == Init /\ [][LiveNext]_vars /\ WF_vars(ScannerStep \/ HandlersStep)

(***************************************************************************)
(* Process start-up (main.py) and the tasks it creates.  probe holds the   *)
(* environment, the position of main / _on_startup (at) and the tasks of   *)
(* the event loop in creation order.  A created task first runs when the   *)
(* start-up coroutine has given the event loop back, which it does when    *)
(* _on_startup returns: it awaits nothing after register_handlers.         *)
(***************************************************************************)
Task(coro) == [coro |-> coro, at |-> "created"]

StartupInit ==
    /\ impl = "handlers"
    /\ market = {L1, L2}
    /\ probe \in [BOT_TOKEN : {"", "t"}, DATABASE_URL : {"", "d"},
                  at : {"main"}, tasks : {<< >>}]
    /\ Start

\* main: require_env raises RuntimeError on an empty variable; otherwise
\* start_polling runs _on_startup.
startup_require_env ==
    /\ probe.at = "main"
    /\ probe' = [probe EXCEPT !.at =
                    IF probe.BOT_TOKEN = "" \/ probe.DATABASE_URL = ""
                      THEN "exited" ELSE "get_pool"]
    /\ UNCHANGED <<impl, market, db, loop, history>>

\* pool = await get_pool(); await init_db() -- either may raise.
startup_db ==
    /\ probe.at \in {"get_pool", "init_db"}
    /\ \E ok \in BOOLEAN :
          probe' = [probe EXCEPT !.at =
                      IF ~ok THEN "startup_failed"
                      ELSE IF probe.at = "get_pool" THEN "init_db"
                      ELSE "register_handlers"]
    /\ UNCHANGED <<impl, market, db, loop, history>>

\* register_handlers: loop.create_task(ensure_tables(pool)) and
\* loop.create_task(scanner_loop(bot, pool)).
startup_register_handlers ==
    /\ probe.at = "register_handlers"
    /\ probe' = [probe EXCEPT
                    !.tasks = @ \o <<Task("ensure_tables"), Task("scanner_loop")>>,
                    !.at = "create_task"]
    /\ UNCHANGED <<impl, market, db, loop, history>>

\* _on_startup: loop.create_task(scanner_loop(bot, pool)), then it returns.
startup_create_task ==
    /\ probe.at = "create_task"
    /\ probe' = [probe EXCEPT !.tasks = Append(@, Task("scanner_loop")),
                              !.at = "started"]
    /\ UNCHANGED <<impl, market, db, loop, history>>

\* The positions a task passes through.  ensure_tables runs its statements
\* and ends, or raises; scanner_loop sleeps 3 seconds and then cycles
\* between the fetch, the work on the users and the sleep.
task_after(coro, at) ==
    IF coro = "ensure_tables"
      THEN (CASE at = "created" -> {"running"}
              [] at = "running" -> {"done", "raised"}
              [] OTHER -> {})
      ELSE (CASE at = "created" -> {"initial_sleep"}
              [] at = "initial_sleep" -> {"fetch"}
              [] at = "fetch" -> {"users", "sleep"}
              [] at = "users" -> {"sleep"}
              [] at = "sleep" -> {"fetch"}
              [] OTHER -> {})

\* The event loop resumes one of its tasks.
startup_task_step ==
    /\ probe.at = "started"
    /\ \E i \in 1..Len(probe.tasks) :
          \E to \in task_after(probe.tasks[i].coro, probe.tasks[i].at) :
              probe' = [probe EXCEPT !.tasks[i].at = to]
    /\ UNCHANGED <<impl, market, db, loop, history>>

StartupNext ==
    \/ startup_require_env
    \/ startup_db
    \/ startup_register_handlers
    \/ startup_create_task
    \/ startup_task_step

SpecStartup == StartupInit /\ [][StartupNext]_vars

(***************************************************************************)
(* The source adapters on their own: _fetch_from_tonapi and                *)
(* _fetch_from_getgems (scanner.py), fetch_listings (handlers.py).         *)
(* probe holds the adapter, whether it is configured, the HTTP exchanges   *)
(* the network will answer with, and what the adapter returned.                 *)
(*                                                                         *)
(* A JSON body is [shape, key, is_list, elems]: shape is what r.json()     *)
(* gives (or that it raises); for an object, key is the path that holds a  *)
(* value, is_list whether that value is an array and elems its elements.   *)
(* An element is a JSON object (an order or an NFT item, price absent when *)
(* the item carries none) or a JSON number.                                *)
(***************************************************************************)
RawObjects ==
    [json : {"object"}, id : {"a"}, address : {"na"}, price : {Null, 4, BadNumber},
     fair_price_ton : {Null}, url : {None}]

RawNumber ==
    [json |-> "number", id |-> None, address |-> None, price |-> Null,
     fair_price_ton |-> Null, url |-> None]

RawItems == RawObjects \cup {RawNumber}

\* The longest array of elements a body holds.
MaxRawItems == 2

RawLists == UNION {[1..n -> RawItems] : n \in 0..MaxRawItems}

BodyKeys == {"orders", "nft_items", "items", "data.orders", "other"}

Bodies ==
    {[shape |-> s, key |-> "", is_list |-> FALSE, elems |-> << >>] :
        s \in {"unparsable", "number"}}
    \cup {[shape |-> "list", key |-> "", is_list |-> TRUE, elems |-> l] : l \in RawLists}
    \cup {[shape |-> "object", key |-> k, is_list |-> TRUE, elems |-> l] :
            k \in BodyKeys, l \in RawLists}
    \cup {[shape |-> "object", key |-> k, is_list |-> FALSE, elems |-> << >>] :
            k \in BodyKeys}

\* One HTTP exchange: the request raises (status 0), or a status and a body.
Responses ==
    {[status |-> 0, body |-> b] : b \in {b0 \in Bodies : b0.shape = "unparsable"}}
    \cup {[status |-> 500, body |-> b] : b \in {b0 \in Bodies : b0.shape = "unparsable"}}
    \cup {[status |-> 200, body |-> b] : b \in Bodies}

\* float(x) if x is not None else None, in its try.
to_float(x) == IF x = BadNumber THEN Null ELSE x

\* The dict _fetch_from_tonapi appends for an element.
tonapi_item(it) ==
    [id |-> IF Truthy(it.id) THEN it.id ELSE it.address,
     nft_address |-> it.address, name |-> "", collection |-> None,
     market |-> "TonAPI", price_ton |-> to_float(it.price),
     fair_price_ton |-> it.fair_price_ton, discount_pct |-> Null, url |-> it.url]

\* The dict _fetch_from_getgems appends for an element.
getgems_item(it) ==
    [id |-> it.id, nft_address |-> it.address, name |-> "", collection |-> None,
     market |-> "Getgems", price_ton |-> to_float(it.price),
     fair_price_ton |-> Null, discount_pct |-> Null, url |-> it.url]

\* The body of the try for one response: the items parsed out of it, << >>
\* when the status is not 200, when the keys looked up are absent or empty,
\* and when anything raises (r.json(), .get on a non-dict, iteration over a
\* non-list).
parsed_orders(resp, keys, adapter) ==
    LET b == resp.body
    IN  IF /\ resp.status = 200 /\ b.shape = "object" /\ b.key \in keys
           /\ b.is_list /\ \A i \in DOMAIN b.elems : b.elems[i].json = "object"
          THEN [i \in DOMAIN b.elems |->
                    IF adapter = "tonapi" THEN tonapi_item(b.elems[i])
                    ELSE getgems_item(b.elems[i])]
          ELSE << >>

\* _fetch_from_tonapi: the first url candidate that yields items.
fetch_from_tonapi(configured, resps) ==
    LET first == parsed_orders(resps[1], {"orders", "items", "nft_items"}, "tonapi")
        second == parsed_orders(resps[2], {"orders", "items", "nft_items"}, "tonapi")
    IN  IF ~configured THEN << >>
        ELSE IF first # << >> THEN first
        ELSE second

\* _fetch_from_getgems: one request.  'orders' and 'marketplaceOrders' under
\* 'data' are read alike; the model carries the first.
fetch_from_getgems(configured, resps) ==
    IF ~configured THEN << >>
    ELSE parsed_orders(resps[1], {"data.orders"}, "getgems")

\* fetch_listings: a JSON array, or the array under 'items', is returned as
\* it came.
fetch_listings(configured, resps) ==
    LET r == resps[1]
    IN  IF ~configured \/ r.status # 200 THEN << >>
        ELSE IF r.body.shape = "list" THEN r.body.elems
        ELSE IF r.body.shape = "object" /\ r.body.key = "items" /\ r.body.is_list
          THEN r.body.elems
        ELSE << >>

Adapters == {"tonapi", "getgems", "feed"}

FetchInit ==
    /\ impl = "scanner"
    /\ market = {L1, L2}
    /\ probe \in [adapter : Adapters, configured : BOOLEAN,
                  resps : [1..2 -> Responses],
                  returned : {[done |-> FALSE, items |-> << >>]}]
    /\ probe.adapter # "tonapi" => probe.resps[2] = probe.resps[1]
    /\ Start

\* One call of the adapter.
fetch_call ==
    /\ ~probe.returned.done
    /\ probe' = [probe EXCEPT !.returned =
          [done |-> TRUE,
           items |->
            CASE probe.adapter = "tonapi" ->
                    fetch_from_tonapi(probe.configured, probe.resps)
              [] probe.adapter = "getgems" ->
                    fetch_from_getgems(probe.configured, probe.resps)
              [] OTHER -> fetch_listings(probe.configured, probe.resps)]]
    /\ UNCHANGED <<impl, market, db, loop, history>>

SpecFetch == FetchInit /\ [][fetch_call]_vars

(***************************************************************************)
(* TxProvider.list_recent (handlers.py), one request per step.  probe      *)
(* holds the address, the forms convert_address gave, the phase of the     *)
(* method, the representations still to try in that phase, the requests    *)
(* made with their answers, and what the method returned.                  *)
(***************************************************************************)
\* An empty address, a friendly one (which decodes to a raw form) and a raw
\* one (which friendly_to_raw rejects).
TxAddresses == {"", "EQfriendly", "0:raw"}

normalize_for_tonapi_local(addr) ==
    IF addr = "" THEN << >>
    ELSE IF addr = "EQfriendly" THEN <<addr, "0:raw">>
    ELSE <<addr>>

\* What convert_address may return; {} (any failure) reads like a dict of
\* empty strings.
TxForms == [bounceable : {"", "EQb"}, non_bounceable : {"", "UQn"}, raw : {"", "0:raw"}]

\* for key in ["bounceable", "non_bounceable", "raw"]: acc = forms.get(key); if acc
converted_forms(forms) ==
    SelectSeq(<<forms.bounceable, forms.non_bounceable, forms.raw>>, LAMBDA a : a # "")

\* fetch_tx: (status, None) on a non-200 status, (200, []) when the answer
\* holds no transaction (or TonCenter says ok: false), (200, items), or the
\* request raises (nothing catches it in fetch_tx or list_recent).
TxAnswers == {"none", "empty", "items", "raise"}

TxPhases == <<"tonapi_local", "tonapi_converted", "toncenter_local", "toncenter_converted">>

provider_of(phase) ==
    IF phase \in {"tonapi_local", "tonapi_converted"} THEN "tonapi" ELSE "toncenter"

\* Every request of a call that finds no data anywhere, in order.
tx_plan(addr, forms) ==
    LET local == normalize_for_tonapi_local(addr)
        conv == converted_forms(forms)
        on(p, accs) == [i \in DOMAIN accs |-> [provider |-> p, acc |-> accs[i]]]
    IN  on("tonapi", local) \o on("tonapi", conv)
          \o on("toncenter", local) \o on("toncenter", conv)

TxInit ==
    /\ impl = "handlers"
    /\ market = {L1, L2}
    /\ \E addr \in TxAddresses :
          probe = [address |-> addr,
                   forms |-> [bounceable |-> "", non_bounceable |-> "", raw |-> ""],
                   phase |-> 1, todo |-> normalize_for_tonapi_local(addr),
                   requests |-> << >>,
                   returned |-> [done |-> FALSE, raised |-> FALSE, items |-> << >>]]
    /\ Start

\* _, items = await fetch_tx(acc, limit); if items is not None: return items
tx_request ==
    /\ ~probe.returned.done /\ probe.todo # << >>
    /\ \E answer \in TxAnswers :
          LET req == [provider |-> provider_of(TxPhases[probe.phase]),
                      acc |-> Head(probe.todo), answer |-> answer]
          IN  probe' = [probe EXCEPT
                  !.requests = Append(@, req),
                  !.todo = IF answer = "none" THEN Tail(@) ELSE << >>,
                  !.returned =
                      CASE answer = "none" -> @
                        [] answer = "raise" ->
                             [done |-> TRUE, raised |-> TRUE, items |-> << >>]
                        [] answer = "empty" ->
                             [done |-> TRUE, raised |-> FALSE, items |-> << >>]
                        [] OTHER ->
                             [done |-> TRUE, raised |-> FALSE,
                              items |-> <<[provider |-> req.provider, acc |-> req.acc]>>]]
    /\ UNCHANGED <<impl, market, db, loop, history>>

\* The end of a for loop: convert_address after the first, the local forms
\* again after the second, the converted forms after the third, and
\* 'return []' after the last.
tx_next_phase ==
    /\ ~probe.returned.done /\ probe.todo = << >>
    /\ CASE probe.phase = 1 ->
              \E forms \in TxForms :
                  probe' = [probe EXCEPT !.forms = forms, !.phase = 2,
                                         !.todo = converted_forms(forms)]
         [] probe.phase = 2 ->
              probe' = [probe EXCEPT !.phase = 3,
                            !.todo = normalize_for_tonapi_local(probe.address)]
         [] probe.phase = 3 ->
              probe' = [probe EXCEPT !.phase = 4,
                            !.todo = converted_forms(probe.forms)]
         [] OTHER ->
              probe' = [probe EXCEPT
                  !.returned = [done |-> TRUE, raised |-> FALSE, items |-> << >>]]
    /\ UNCHANGED <<impl, market, db, loop, history>>

TxNext == tx_request \/ tx_next_phase

SpecTx == TxInit /\ [][TxNext]_vars

(***************************************************************************)
(* The aggregator _fetch_all_sources (scanner.py) on its own.  probe holds *)
(* what the two adapters returned, the merged batch, and the batches two   *)
(* further merges give: one of the merged batch alone, one of the adapter  *)
(* outputs taken twice.                                                    *)
(***************************************************************************)
Order(id, price, source, url, fair, disc) ==
    [id |-> id, nft_address |-> "n" \o id, name |-> "", collection |-> "c1",
     market |-> source, price_ton |-> price, fair_price_ton |-> fair,
     discount_pct |-> disc, url |-> url]

\* G1 and G2 are one identity under two urls, G3 the same lot at another
\* price; T1 is the lot as another market lists it, with a floor; T2 another
\* lot, without floor, with the discount its source supplies.
G1 == Order("a", 4, "Getgems", "https://g/a", Null, Null)
G2 == Order("a", 4, "Getgems", "https://g/a2", Null, Null)
G3 == Order("a", 10, "Getgems", "https://g/a", Null, Null)
T1 == Order("a", 4, "TonAPI", "https://t/a", 10, Null)
T2 == Order("b", 6, "TonAPI", None, Null, 50)

\* The longest list each adapter returns.
MaxTonapiItems == 3
MaxGetgemsItems == 2

UpTo(S, n) == UNION {[1..k -> S] : k \in 0..n}

\* _fetch_from_tonapi takes the market from the order when it names one.
TonapiOutputs == UpTo({G1, G2, G3, T1, T2}, MaxTonapiItems)
GetgemsOutputs == UpTo({G1, G2, G3}, MaxGetgemsItems)

\* The merge key with the price left out.
merge_key_without_price(d) == <<d.market, d.id, d.nft_address>>

\* key = (d.get("market"), d.get("id"), d.get("nft_address"), d.get("price_ton"))
merge_key(d) == <<d.market, d.id, d.nft_address, d.price_ton>>

\* The inner loop with the element after a duplicate passed over, as when
\* the duplicate is removed from the list being iterated.
RECURSIVE merge_into_skipping(_, _)
merge_into_skipping(arr, acc) ==
    IF arr = << >> THEN acc
    ELSE IF merge_key(Head(arr)) \in acc.seen
      THEN merge_into_skipping(IF Len(arr) > 1 THEN Tail(Tail(arr)) ELSE << >>, acc)
      ELSE merge_into_skipping(Tail(arr),
               [seen |-> acc.seen \cup {merge_key(Head(arr))},
                out |-> Append(acc.out, Head(arr))])

\* for d in arr: if key in seen: continue; seen.add(key); out.append(d)
RECURSIVE merge_into(_, _)
merge_into(arr, acc) ==
    IF arr = << >> THEN acc
    ELSE IF merge_key(Head(arr)) \in acc.seen
      THEN merge_into(Tail(arr), acc)
      ELSE merge_into(Tail(arr),
               [seen |-> acc.seen \cup {merge_key(Head(arr))},
                out |-> Append(acc.out, Head(arr))])

\* for arr in sources: ...; return out
RECURSIVE merge_from(_, _)
merge_from(sources, acc) ==
    IF sources = << >> THEN acc.out
    ELSE merge_from(Tail(sources), merge_into(Head(sources), acc))

merge_sources(sources) == merge_from(sources, [seen |-> {}, out |-> << >>])

\* sources holds the adapter outputs that are not empty, TonAPI first.
fetch_all_sources(tonapi_items, getgems_items) ==
    merge_sources(SelectSeq(<<tonapi_items, getgems_items>>, LAMBDA a : a # << >>))

MergeInit ==
    /\ impl = "scanner"
    /\ market = {L1, L2}
    /\ probe \in [tonapi_items : TonapiOutputs, getgems_items : GetgemsOutputs,
                  calls : {0}, merged : {<< >>}, remerged : {<< >>}, twice : {<< >>}]
    /\ Start

\* One call of _fetch_all_sources on the adapter outputs.
merge_call ==
    /\ probe.calls = 0
    /\ probe' = [probe EXCEPT !.calls = 1,
                    !.merged = fetch_all_sources(probe.tonapi_items, probe.getgems_items)]
    /\ UNCHANGED <<impl, market, db, loop, history>>

\* The merge run again: on its own output, and on the adapter outputs
\* taken twice.
merge_again ==
    /\ probe.calls = 1
    /\ probe' = [probe EXCEPT !.calls = 2,
                    !.remerged = merge_sources(<<probe.merged>>),
                    !.twice = merge_sources(
                        SelectSeq(<<probe.tonapi_items, probe.getgems_items,
                                    probe.tonapi_items, probe.getgems_items>>,
                                  LAMBDA a : a # << >>))]
    /\ UNCHANGED <<impl, market, db, loop, history>>

MergeNext == merge_call \/ merge_again

SpecMerge == MergeInit /\ [][MergeNext]_vars

(***************************************************************************)
(* The two discount functions on their own: _calc_discount_pct             *)
(* (scanner.py) and _item_discount (handlers.py) applied to one listing    *)
(* with a known floor and price.  probe holds the listing and, once        *)
(* called, what each function returned.                                    *)
(***************************************************************************)
\* Prices under, at and over the floors; the source names no discount, or
\* 0, or 50.  Every percentage of the set is a whole number.
DiscountListings ==
    {[Listing("a", p, "https://m/a", None) EXCEPT
          !.fair_price_ton = f, !.floor_ton = f, !.discount_pct = s, !.discount = s] :
        p \in {4, 8, 10, 12}, f \in {10, 20, 40}, s \in {Null, 0, 50}}

DiscountInit ==
    /\ impl = "scanner"
    /\ market = {L1, L2}
    /\ probe \in [listing : DiscountListings, calc : {<< >>}, item : {<< >>}]
    /\ Start

\* _calc_discount_pct(deal)
discount_calc ==
    /\ probe.calc = << >>
    /\ probe' = [probe EXCEPT !.calc = <<calc_discount_pct(probe.listing)>>]
    /\ UNCHANGED <<impl, market, db, loop, history>>

\* _item_discount(item)
discount_item ==
    /\ probe.item = << >>
    /\ probe' = [probe EXCEPT !.item = <<item_discount(probe.listing)>>]
    /\ UNCHANGED <<impl, market, db, loop, history>>

DiscountNext == discount_calc \/ discount_item

SpecDiscount == DiscountInit /\ [][DiscountNext]_vars

(***************************************************************************)
(* The two matchers as functions of one listing and one settings record:   *)
(* _passes_filters_with_reason of scanner.py and _item_matches of          *)
(* handlers.py, each asked under the stored threshold and under a higher   *)
(* one.                                                                    *)
(***************************************************************************)
\* price 4 is 80% under a floor of 20, 15 is 25% under, 16 is 20% under
FilterPrices == {Null, Missing, 4, 15, 16}
FilterFloors == {Null, 20}
FilterDiscounts == {Null, 20, 25}
FilterCollections == {None, "c1", "C1", "c2"}
\* no timestamp, listed ten minutes ago, listed five hundred minutes ago, a
\* timestamp that is not a number
FilterListedAt == {Null, NowMin - 10, NowMin - 500, BadNumber}

FilterListings ==
    {[Listing("x", p, "u", "") EXCEPT !.fair_price_ton = f, !.floor_ton = f,
                                      !.discount_pct = d, !.discount = d,
                                      !.collection = c, !.listed_at = t] :
        p \in FilterPrices, f \in FilterFloors, d \in FilterDiscounts,
        c \in FilterCollections, t \in FilterListedAt}

FilterThresholds == {0, 25, 60}

FilterSettings ==
    [min_discount : FilterThresholds, max_price_ton : {Null, 5},
     collections : {{}, {"C1"}}]

FilterInit ==
    /\ impl = "scanner"
    /\ market = {L1, L2}
    /\ probe \in {p \in [listing : FilterListings, st : FilterSettings,
                         higher : FilterThresholds,
                         scanner : {<< >>}, item : {<< >>}] :
                    p.higher >= p.st.min_discount}
    /\ Start

\* _passes_filters_with_reason(deal, st), under st and under the higher threshold
filter_scanner ==
    /\ probe.scanner = << >>
    /\ probe' = [probe EXCEPT !.scanner =
          <<passes_filters(probe.listing, probe.st),
            passes_filters(probe.listing,
                           [probe.st EXCEPT !.min_discount = probe.higher])>>]
    /\ UNCHANGED <<impl, market, db, loop, history>>

\* _item_matches(it, st), under st and under the higher threshold
filter_handlers ==
    /\ probe.item = << >>
    /\ probe' = [probe EXCEPT !.item =
          <<item_matches(probe.listing, probe.st),
            item_matches(probe.listing,
                         [probe.st EXCEPT !.min_discount = probe.higher])>>]
    /\ UNCHANGED <<impl, market, db, loop, history>>

FilterNext == filter_scanner \/ filter_handlers

SpecFilter == FilterInit /\ [][FilterNext]_vars

(***************************************************************************)
(* The pause between two cycles as a function of the environment and of    *)
(* the enabled users: scanner_loop._calc_sleep_default of scanner.py and   *)
(* the asyncio.sleep(SCAN_INTERVAL_SEC) of handlers.scanner_loop.  probe   *)
(* holds SCANNER_TICK_SECONDS and SCAN_INTERVAL_SEC as the process         *)
(* environment gives them (Null: not set), the number of enabled users and *)
(* whether the database answers.                                           *)
(***************************************************************************)
\* int(st.get("poll_seconds") or 60): the settings rows carry no poll_seconds
DefaultPollSeconds == 60

SleepEnvValues == {Null, 5, 30}

\* int(os.getenv("SCANNER_TICK_SECONDS", "30"))
tick_seconds_from(env_value) ==
    IF env_value = Null THEN DEFAULT_TICK_SECONDS ELSE env_value

\* int(os.getenv("SCAN_INTERVAL_SEC", "60"))
scan_interval_from(env_value) ==
    IF env_value = Null THEN SCAN_INTERVAL_SEC ELSE env_value

\* _calc_sleep_default: max(10, min(mins)) when the users and their settings
\* could be read and there is one at least, DEFAULT_TICK_SECONDS otherwise.
calc_sleep(enabled, db_ok, env_value) ==
    IF db_ok /\ enabled > 0 THEN Max(10, DefaultPollSeconds)
    ELSE tick_seconds_from(env_value)

SleepInit ==
    /\ impl = "scanner"
    /\ market = {L1, L2}
    /\ probe \in [tick_env : SleepEnvValues, interval_env : SleepEnvValues,
                  enabled : 0..Cardinality(Users), db_ok : BOOLEAN,
                  scanner : {<< >>}, handlers : {<< >>}]
    /\ Start

\* scanner.py: sleep_seconds = await _calc_sleep_default()
sleep_scanner ==
    /\ probe.scanner = << >>
    /\ probe' = [probe EXCEPT !.scanner =
                    <<calc_sleep(probe.enabled, probe.db_ok, probe.tick_env)>>]
    /\ UNCHANGED <<impl, market, db, loop, history>>

\* handlers.py: await asyncio.sleep(SCAN_INTERVAL_SEC), in the try and in
\* the except alike
sleep_handlers ==
    /\ probe.handlers = << >>
    /\ probe' = [probe EXCEPT !.handlers = <<scan_interval_from(probe.interval_env)>>]
    /\ UNCHANGED <<impl, market, db, loop, history>>

SleepNext == sleep_scanner \/ sleep_handlers

SpecSleep == SleepInit /\ [][SleepNext]_vars

(***************************************************************************)
(* The configuration commands of handlers.py as functions of the settings  *)
(* table: /scanner_settings, /set_discount, /set_maxprice.  probe holds    *)
(* the table before and after the last command, the command, its user and  *)
(* its argument.                                                           *)
(***************************************************************************)
\* text that is no number, a negative number, the bounds, values in between,
\* a value above the range
DiscountArguments == {BadNumber, -5, 0, 25, 100, 101}

\* "none", text that is no number, a negative number, zero, a positive price
\* below half the column's last decimal, two prices the column holds exactly
MaxPriceArguments == {Null, BadNumber, -50, 0, 4, 50, 500}

\* "none", one collection
CollectionArguments == {{}, {"C1"}}

ConfigInit ==
    /\ impl = "handlers"
    /\ market = {L1, L2}
    /\ probe = [before |-> << >>, after |-> << >>, command |-> "start",
                user |-> Null, arg |-> Null]
    /\ Start

\* /scanner_settings: get_or_create_scanner_settings, then the answer
config_scanner_settings ==
    /\ \E u \in Users :
          probe' = [before |-> probe.after,
                    after |-> settings_created(probe.after, u),
                    command |-> "scanner_settings", user |-> u, arg |-> Null]
    /\ UNCHANGED <<impl, market, db, loop, history>>

\* /set_discount <arg>
config_set_discount ==
    /\ \E u \in Users, val \in DiscountArguments :
          probe' = [before |-> probe.after,
                    after |-> set_discount(probe.after, u, val),
                    command |-> "set_discount", user |-> u, arg |-> val]
    /\ UNCHANGED <<impl, market, db, loop, history>>

\* /set_maxprice <arg>
config_set_maxprice ==
    /\ \E u \in Users, val \in MaxPriceArguments :
          probe' = [before |-> probe.after,
                    after |-> set_maxprice(probe.after, u, val),
                    command |-> "set_maxprice", user |-> u, arg |-> val]
    /\ UNCHANGED <<impl, market, db, loop, history>>

\* /set_collections <arg>
config_set_collections ==
    /\ \E u \in Users, cols \in CollectionArguments :
          probe' = [before |-> probe.after,
                    after |-> set_collections(probe.after, u, cols),
                    command |-> "set_collections", user |-> u, arg |-> cols]
    /\ UNCHANGED <<impl, market, db, loop, history>>

ConfigNext ==
    \/ config_scanner_settings
    \/ config_set_discount
    \/ config_set_maxprice
    \/ config_set_collections

SpecConfig == ConfigInit /\ [][ConfigNext]_vars

(***************************************************************************)
(* The scanner.py loop with more candidates than the per-user cap: four    *)
(* lots on sale, each 60% under the floor, and one user, enabled before    *)
(* the process started and never switched off.                             *)
(***************************************************************************)
N1 == Listing("n1", 4, "https://m/n1", None)
N2 == Listing("n2", 4, "https://m/n2", None)
N3 == Listing("n3", 4, "https://m/n3", None)
N4 == Listing("n4", 4, "https://m/n4", None)

CapInit ==
    /\ impl = "scanner"
    /\ market = {N1, N2, N3, N4}
    /\ probe = << >>
    /\ app_users = [u \in Users |-> u = 1]
    /\ app_scanner_settings = << >>
    /\ app_found_deals = {}
    /\ app_scanner_sent = {}
    /\ pc = "sleep"
    /\ users = << >>
    /\ st = DefaultSettings
    /\ all_deals = << >>
    /\ deals = << >>
    /\ sent = 0
    /\ lookup = "none"
    /\ outcome = "none"
    /\ sleep_seconds = DEFAULT_TICK_SECONDS
    /\ first_cycle = TRUE
    /\ alerted = {}
    /\ attempted = {}
    /\ rejected = << >>
    /\ passed = {}

SpecCap == CapInit /\ [][ScannerStep]_vars

(***************************************************************************)
(* Two handlers.scanner_loop tasks on one database: register_handlers      *)
(* creates one and main._on_startup another, and the event loop switches   *)
(* between them at every await.  probe holds each task's position and      *)
(* locals, the shared table app_scanner_sent, and as history which task    *)
(* inserted and which task delivered each (user_id, item_id).  Both users  *)
(* have the scanner enabled and the default settings.                      *)
(***************************************************************************)
LoopTasks == {1, 2}

\* the same lot at two prices: one item_id
TwoMarket == {L1, L2}

TwoItemIds == {item_id_of(d) : d \in TwoMarket}

\* a task about to start a cycle
Sleeping == [pc |-> "sleep", users |-> << >>, items |-> << >>, deals |-> << >>]

TwoInit ==
    /\ impl = "handlers"
    /\ market = TwoMarket
    /\ probe = [tasks |-> [i \in LoopTasks |-> Sleeping],
                app_scanner_sent |-> {},
                inserted_by |-> {},
                delivered_by |-> {},
                alerts |-> [p \in Users \X TwoItemIds |-> 0]]
    /\ Start

\* items = await fetch_listings(); the SELECT of the enabled users
two_fetch(i) ==
    /\ probe.tasks[i].pc = "sleep"
    /\ \E ok \in BOOLEAN, order \in Orders(Users), items \in Batches(TwoMarket) :
          probe' = [probe EXCEPT !.tasks[i] =
                      IF items # << >> /\ ok
                        THEN [pc |-> "h_user", users |-> order, items |-> items,
                              deals |-> << >>]
                        ELSE Sleeping]
    /\ UNCHANGED <<impl, market, db, loop, history>>

\* for u in users: st = await get_or_create_scanner_settings(pool, uid)
two_user(i) ==
    /\ probe.tasks[i].pc = "h_user"
    /\ LET t == probe.tasks[i]
       IN  \E ok \in BOOLEAN :
             probe' = [probe EXCEPT !.tasks[i] =
                         IF t.users = << >> \/ ~ok THEN Sleeping
                         ELSE [t EXCEPT !.pc = "h_item", !.deals = t.items]]
    /\ UNCHANGED <<impl, market, db, loop, history>>

\* for it in items: item_id, _item_matches, inserted = await mark_sent(...)
two_item(i) ==
    /\ probe.tasks[i].pc = "h_item"
    /\ LET t == probe.tasks[i]
       IN  IF t.deals = << >>
             THEN probe' = [probe EXCEPT !.tasks[i].users = Tail(@),
                                         !.tasks[i].pc = "h_user"]
             ELSE LET it == Head(t.deals)
                      uid == Head(t.users)
                      item_id == item_id_of(it)
                  IN  IF item_id = "" \/ ~item_matches(it, DefaultSettings)
                        THEN probe' = [probe EXCEPT !.tasks[i].deals = Tail(@)]
                        ELSE \E db_ok \in BOOLEAN :
                               IF mark_sent(probe.app_scanner_sent, db_ok, uid, item_id)
                                 THEN probe' = [probe EXCEPT
                                         !.app_scanner_sent = @ \cup {<<uid, item_id>>},
                                         !.inserted_by = @ \cup {<<i, uid, item_id>>},
                                         !.tasks[i].pc = "h_send"]
                                 ELSE probe' = [probe EXCEPT !.tasks[i].deals = Tail(@)]
    /\ UNCHANGED <<impl, market, db, loop, history>>

\* await send_item_alert(bot, uid, it): delivered, or the exception ends the
\* cycle of this task
two_send(i) ==
    /\ probe.tasks[i].pc = "h_send"
    /\ LET t == probe.tasks[i]
           uid == Head(t.users)
           item_id == item_id_of(Head(t.deals))
       IN  \E ok \in BOOLEAN :
             IF ok
               THEN probe' = [probe EXCEPT
                       !.alerts[<<uid, item_id>>] = IF @ < 2 THEN @ + 1 ELSE @,
                       !.delivered_by = @ \cup {<<i, uid, item_id>>},
                       !.tasks[i].deals = Tail(@),
                       !.tasks[i].pc = "h_item"]
               ELSE probe' = [probe EXCEPT !.tasks[i] = Sleeping]
    /\ UNCHANGED <<impl, market, db, loop, history>>

TwoNext ==
    \E i \in LoopTasks : two_fetch(i) \/ two_user(i) \/ two_item(i) \/ two_send(i)

SpecTwoLoops == TwoInit /\ [][TwoNext]_vars

(***************************************************************************)
(* The payment flow of handlers.py: /pay, /verify and the wallet's         *)
(* transactions.  aiogram runs every update in a task of its own, so two   *)
(* /verify commands interleave at their awaits: the SELECT, the provider's *)
(* answer and the UPDATE are separate steps.  probe holds the wallet       *)
(* setting, the clock (minutes), app_payments in insertion order (a        *)
(* record's index is its id), the wallet's transactions newest first, the  *)
(* /verify handlers in flight and the users the flow enabled.  Amounts are *)
(* in hundredths of a TON.                                                 *)
(***************************************************************************)
\* Decimal(os.getenv("MIN_PAYMENT_TON", "0.1"))
MIN_PAYMENT_TON == 10

\* int(os.getenv("PAYMENT_TTL_MIN", "30"))
PAYMENT_TTL_MIN == 30

\* lookback_minutes=360
LookbackMinutes == 360

MaxPayments == 2

MaxTransfers == 1

\* the clock's values: a record made at 0 is past its TTL at 40, a
\* transaction of 0 is outside the lookback at 400
PayTimes == <<0, 40, 400>>

VerifyTasks == {1, 2}

\* f"pay-{uuid.uuid4().hex[:6]}": one of 2^24 random texts, nothing keeps
\* two calls from returning the same one
gen_comment == {"pay-a", "pay-b"}

\* what a user may type after /verify
VerifyArguments == gen_comment \cup {"PAY-A"}

\* str.strip().lower() on the comments that occur
strip_lower(c) == IF c \in {"PAY-A", "PAY-A ", "pay-a"} THEN "pay-a" ELSE c

\* parts[1].strip()
strip(c) == IF c = "PAY-A " THEN "PAY-A" ELSE c

\* The transactions the wallet's account may show: in_msg is the message
\* that started the transaction (an incoming transfer, or the owner's
\* external message with no value), out_msgs are the messages the wallet
\* sent.
Transfers ==
    { [in_msg |-> [comment |-> "pay-a", amount |-> 10], out_msgs |-> << >>],
      [in_msg |-> [comment |-> "PAY-A ", amount |-> 10], out_msgs |-> << >>],
      [in_msg |-> [comment |-> "pay-a", amount |-> 5], out_msgs |-> << >>],
      [in_msg |-> [comment |-> "", amount |-> 0],
       out_msgs |-> <<[comment |-> "pay-a", amount |-> 10]>>],
      [in_msg |-> [comment |-> "", amount |-> 0],
       out_msgs |-> <<[comment |-> "pay-a", amount |-> 10],
                      [comment |-> "pay-b", amount |-> 10]>>] }

\* msgs: in_msg first, then out_msgs
msgs_of(tx) == <<tx.in_msg>> \o tx.out_msgs

\* cmt == wanted and amt is not None and amt >= min_amount_ton
msg_matches(msg, wanted, min_amount_ton) ==
    /\ strip_lower(msg.comment) = wanted
    /\ msg.amount # Null
    /\ msg.amount >= min_amount_ton

\* if tx_dt and tx_dt < since_dt: continue
tx_in_lookback(tx, now) == ~(tx.utime < now - LookbackMinutes)

RECURSIVE first_match(_, _, _)
first_match(msgs, wanted, min_amount_ton) ==
    IF msgs = << >> THEN Null
    ELSE IF msg_matches(Head(msgs), wanted, min_amount_ton) THEN Head(msgs).amount
    ELSE first_match(Tail(msgs), wanted, min_amount_ton)

\* find_incoming_with_comment over the list list_recent returned: the first
\* message of the first transaction that matches, as (tx_id, amount), or
\* None
NotFound == [tx_id |-> Null, amount |-> Null]

RECURSIVE find_incoming_with_comment(_, _, _, _)
find_incoming_with_comment(items, comment, min_amount_ton, now) ==
    IF items = << >> THEN NotFound
    ELSE LET tx == Head(items)
             amt == first_match(msgs_of(tx), strip_lower(comment), min_amount_ton)
         IN  IF tx_in_lookback(tx, now) /\ amt # Null THEN [tx_id |-> tx.id, amount |-> amt]
             ELSE find_incoming_with_comment(Tail(items), comment, min_amount_ton, now)

\* a /verify handler that is not running
Idle == [pc |-> "idle", user |-> Null, comment |-> "", row |-> Null, found |-> NotFound]

PayInit ==
    /\ impl = "handlers"
    /\ market = {L1, L2}
    /\ \E wallet \in BOOLEAN :
          probe = [wallet |-> wallet, now |-> 1, app_payments |-> << >>,
                   chain |-> << >>, tasks |-> [i \in VerifyTasks |-> Idle],
                   app_users |-> {}]
    /\ Start

\* time passes
pay_clock ==
    /\ probe.now < Len(PayTimes)
    /\ probe' = [probe EXCEPT !.now = @ + 1]
    /\ UNCHANGED <<impl, market, db, loop, history>>

\* a transaction appears on the wallet's account; providers list the newest
\* first
chain_transfer ==
    /\ probe.wallet
    /\ Len(probe.chain) < MaxTransfers
    /\ \E t \in Transfers :
          probe' = [probe EXCEPT !.chain =
                      <<[id |-> Len(probe.chain) + 1,
                         utime |-> PayTimes[probe.now],
                         in_msg |-> t.in_msg, out_msgs |-> t.out_msgs]>> \o @]
    /\ UNCHANGED <<impl, market, db, loop, history>>

\* /pay: INSERT INTO app_payments (...) VALUES (..., 'pending')
pay_handler(u) ==
    /\ Len(probe.app_payments) < MaxPayments
    /\ IF ~probe.wallet THEN UNCHANGED probe
       ELSE \E comment \in gen_comment :
               probe' = [probe EXCEPT !.app_payments =
                           Append(@, [user_id |-> u, comment |-> comment,
                                      status |-> "pending", tx_hash |-> Null,
                                      created_at |-> PayTimes[probe.now]])]
    /\ UNCHANGED <<impl, market, db, loop, history>>

\* SELECT id, status, created_at FROM app_payments WHERE user_id=$1 AND
\* comment=$2 ORDER BY created_at DESC LIMIT 1
latest_payment(table, u, comment) ==
    LET ids == {i \in DOMAIN table : table[i].user_id = u /\ table[i].comment = comment}
    IN  IF ids = {} THEN Null ELSE CHOOSE i \in ids : \A j \in ids : j <= i

\* /verify up to the call of find_incoming_with_comment: no wallet, no row
\* or a paid row end the handler.  A new handler takes the first free task.
verify_select(i, u, arg) ==
    /\ probe.tasks[i].pc = "idle"
    /\ \A j \in VerifyTasks : j < i => probe.tasks[j].pc # "idle"
    /\ LET comment == strip(arg)
           row == latest_payment(probe.app_payments, u, comment)
       IN  IF ~probe.wallet \/ row = Null \/ probe.app_payments[row].status = "paid"
             THEN UNCHANGED probe
             ELSE probe' = [probe EXCEPT !.tasks[i] =
                              [pc |-> "find", user |-> u, comment |-> comment,
                               row |-> row, found |-> NotFound]]
    /\ UNCHANGED <<impl, market, db, loop, history>>

\* found = await find_incoming_with_comment(...); ttl_expired; list_recent
\* gives the account's transactions, [] when no provider answered, or raises
verify_find(i) ==
    /\ probe.tasks[i].pc = "find"
    /\ \E answer \in {"items", "empty", "raise"} :
          LET t == probe.tasks[i]
              items == IF answer = "items" THEN probe.chain ELSE << >>
              found == find_incoming_with_comment(items, t.comment, MIN_PAYMENT_TON,
                                                  PayTimes[probe.now])
              ttl_expired == PayTimes[probe.now] - probe.app_payments[t.row].created_at
                               > PAYMENT_TTL_MIN
          IN  probe' = [probe EXCEPT !.tasks[i] =
                  CASE answer = "raise" -> Idle
                    [] found # NotFound -> [t EXCEPT !.pc = "paid", !.found = found]
                    [] ttl_expired -> [t EXCEPT !.pc = "expired"]
                    [] OTHER -> Idle]
    /\ UNCHANGED <<impl, market, db, loop, history>>

\* UPDATE app_payments SET status='expired' WHERE id=$1
verify_expire(i) ==
    /\ probe.tasks[i].pc = "expired"
    /\ \E ok \in BOOLEAN :
          probe' = [probe EXCEPT
              !.app_payments[probe.tasks[i].row].status = IF ok THEN "expired" ELSE @,
              !.tasks[i] = Idle]
    /\ UNCHANGED <<impl, market, db, loop, history>>

\* UPDATE app_payments SET status='paid', tx_hash=$2, paid_at=now() WHERE
\* id=$1, then the upsert of app_users; either statement may raise
verify_paid(i) ==
    /\ probe.tasks[i].pc = "paid"
    /\ \E raised \in {"none", "update", "upsert"} :
          LET t == probe.tasks[i]
          IN  probe' = [probe EXCEPT
                  !.app_payments[t.row] =
                      IF raised = "update" THEN @
                      ELSE [@ EXCEPT !.status = "paid", !.tx_hash = t.found.tx_id],
                  !.app_users = IF raised = "none" THEN @ \cup {t.user} ELSE @,
                  !.tasks[i] = Idle]
    /\ UNCHANGED <<impl, market, db, loop, history>>

PayNext ==
    \/ pay_clock
    \/ chain_transfer
    \/ \E u \in Users : pay_handler(u)
    \/ \E i \in VerifyTasks, u \in Users, arg \in VerifyArguments : verify_select(i, u, arg)
    \/ \E i \in VerifyTasks : verify_find(i)
    \/ \E i \in VerifyTasks : verify_expire(i)
    \/ \E i \in VerifyTasks : verify_paid(i)

SpecPay == PayInit /\ [][PayNext]_vars

(***************************************************************************)
(* Properties.                                                             *)
(***************************************************************************)
\* The listing and the user the loop is working on.
cur_deal == Head(deals)
cur_user == Head(users)

\* C1: in the scanner.py pipeline no message is delivered for a deal whose
\* identity mark_deal_seen has already recorded in app_found_deals.
C1_NoSendOnceRecorded ==
    (impl = "scanner" /\ pc = "mark" /\ outcome = "delivered")
        => ~was_deal_seen(app_found_deals, hash_deal(cur_deal))

\* C2: handlers.scanner_loop never delivers to a user an item (same id, same
\* price) that an earlier delivery already brought to that user.
C2_NoSecondAlert ==
    [][(impl = "handlers" /\ pc = "h_send" /\ outcome' = "delivered")
          => <<cur_user, cur_deal>> \notin alerted]_vars

\* A later cycle has met the item again, alone in its batch, for a user it
\* still matches and who got it in an earlier cycle, and has passed it over.
C2_Witness ==
    /\ impl = "handlers" /\ pc = "h_item" /\ lookup = "seen"
    /\ all_deals = <<L1>> /\ deals = << >>
    /\ <<cur_user, L1>> \in alerted /\ L1 \notin attempted
    /\ item_matches(L1, st)

\* C3: the ledger gains an entry only for a listing that matched the filters
\* of the user being processed; and a listing that an earlier cycle passed
\* over, unrecorded when this cycle began, is sent to a user whose filters
\* now let it through (unless mark_sent cannot reach the ledger).
C3_UnmatchedStaysEligible ==
    [][/\ \A r \in app_found_deals' \ app_found_deals :
              r.deal_id = hash_deal(cur_deal) /\ passes_filters(cur_deal, st)
       /\ \A p \in app_scanner_sent' \ app_scanner_sent :
              p = <<cur_user, item_id_of(cur_deal)>> /\ item_matches(cur_deal, st)
       /\ (pc = "lookup" /\ deals # << >> /\ sent < MAX_DEALS_PER_USER
              /\ cur_deal \in passed)
            => pc' = "send"
       /\ (pc = "h_item" /\ deals # << >> /\ cur_deal \in passed
              /\ item_matches(cur_deal, st))
            => (pc' = "h_send" \/ lookup' = "raised")]_vars

\* C4: every identity a step adds to a ledger is the identity of a listing
\* for which a delivery attempt has been made earlier in the same cycle.
C4_MarkOnlyAfterAttempt ==
    [][/\ \A r \in app_found_deals' \ app_found_deals :
              \E d \in attempted : hash_deal(d) = r.deal_id
       /\ \A p \in app_scanner_sent' \ app_scanner_sent :
              \E d \in attempted : item_id_of(d) = p[2]]_vars

\* C5: after mark_deal_seen has been called with a deal, was_deal_seen
\* answers TRUE for that deal's identity, whatever the ledger held before.
C5_MarkThenSeen ==
    \A d \in market :
        was_deal_seen(mark_deal_seen(app_found_deals, found_deal_row(d)),
                      hash_deal(d))

\* C6: a message is delivered only for a listing whose ledger lookup was
\* made in this cycle and answered 'not seen'.
C6_SendOnlyAfterUnseen ==
    [][(pc \in {"send", "h_send"} /\ outcome' = "delivered")
          => lookup = "unseen"]_vars

\* C7: when the ledger call for a listing raised, no send is made for that
\* listing.
C7_NoSendWhenLedgerDown ==
    lookup = "raised" => pc \notin {"send", "h_send"}

\* Two listings agree on the four hashed fields.
same_key(a, b) ==
    /\ a.id = b.id /\ a.nft_address = b.nft_address
    /\ a.price_ton = b.price_ton /\ a.market = b.market

\* Two listings differ in price_ton and in nothing else.
only_price_differs(a, b) ==
    /\ a.id = b.id /\ a.nft_address = b.nft_address /\ a.market = b.market
    /\ a.url = b.url /\ a.price_ton # b.price_ton

\* C8: equal (id, nft_address, price_ton, market) give equal identities,
\* whatever the other fields; a difference in price_ton alone gives
\* different identities.
C8_IdentityByKeyAndPrice ==
    (probe # << >> /\ probe.identity # << >>) =>
        \A i, j \in 1..3 :
            /\ same_key(probe.fetched[i], probe.fetched[j])
                  => probe.identity[i] = probe.identity[j]
            /\ only_price_differs(probe.fetched[i], probe.fetched[j])
                  => probe.identity[i] # probe.identity[j]

\* Identities were computed for one key under two urls and for the same lot
\* at another price.
C8_Witness ==
    /\ probe # << >> /\ probe.identity # << >>
    /\ same_key(probe.fetched[1], probe.fetched[2])
    /\ probe.fetched[1].url # probe.fetched[2].url
    /\ only_price_differs(probe.fetched[1], probe.fetched[3])

\* User u was alerted about the lot of d (same id, same url) at another
\* price, and the batch of this cycle no longer carries that price.
repriced_for(u, d) ==
    \E d0 \in Universe :
        /\ <<u, d0>> \in alerted /\ d0 \notin Range(all_deals)
        /\ d0.id = d.id /\ d0.url = d.url /\ d0.price_ton # d.price_ton

\* C9: a user alerted in an earlier cycle about a lot that is now fetched at
\* another price (same id, same url) which matches the user's filters is
\* alerted about the new price, and only once.
C9_PriceChangeRealerts ==
    [][/\ (pc = "lookup" /\ deals # << >> /\ sent < MAX_DEALS_PER_USER
              /\ repriced_for(cur_user, cur_deal)
              /\ <<cur_user, cur_deal>> \notin alerted)
            => pc' = "send"
       /\ (pc = "h_item" /\ deals # << >> /\ item_matches(cur_deal, st)
              /\ repriced_for(cur_user, cur_deal)
              /\ <<cur_user, cur_deal>> \notin alerted)
            => (pc' = "h_send" \/ lookup' = "raised")
       /\ (pc \in {"send", "h_send"} /\ outcome' = "delivered"
              /\ repriced_for(cur_user, cur_deal))
            => <<cur_user, cur_deal>> \notin alerted]_vars

\* Some matching listing the ledger does not hold is still to come in this
\* cycle, for the current user or for a later one.
rest_of_cycle ==
    \/ \E i \in 2..Len(deals) :
          IF impl = "scanner"
            THEN ~was_deal_seen(app_found_deals, hash_deal(deals[i]))
            ELSE /\ item_matches(deals[i], st)
                 /\ <<cur_user, item_id_of(deals[i])>> \notin app_scanner_sent
    \/ \E j \in 2..Len(users), d \in Range(all_deals) :
          IF impl = "scanner"
            THEN /\ passes_filters(d, settings_of(app_scanner_settings, users[j]))
                 /\ hash_deal(d) # hash_deal(cur_deal)
                 /\ ~was_deal_seen(app_found_deals, hash_deal(d))
            ELSE /\ item_matches(d, settings_of(app_scanner_settings, users[j]))
                 /\ <<users[j], item_id_of(d)>> \notin app_scanner_sent

\* C10: a failed delivery leaves the rest of the cycle in place: when some
\* matching listing is still to come, for this user or a later one, the
\* loop goes on with it.
C10_FailureDoesNotAbort ==
    [][(pc \in {"send", "h_send"} /\ outcome' = "failed" /\ rest_of_cycle)
          => (users' = users /\ all_deals' = all_deals)]_vars

\* The Bot calls of the alert under test that match a method and a result.
alert_calls(method, ok) ==
    {i \in 1..Len(probe.sends) :
        probe.sends[i].method = method /\ probe.sends[i].ok = ok}

\* C11: when the listing has an image and send_photo fails, send_message is
\* attempted with the same caption; once the loop has moved on, the alert
\* was delivered as text or the process has reported the delivery failure.
C11_FallbackDeliversOrReports ==
    \A i \in alert_calls("send_photo", FALSE) :
        /\ probe.at # "photo_failed" =>
              \E j \in i + 1..Len(probe.sends) :
                  /\ probe.sends[j].method = "send_message"
                  /\ probe.sends[j].text = probe.sends[i].text
                  /\ probe.sends[j].chat_id = probe.sends[i].chat_id
        /\ probe.at \in {"next_item", "sleep"} =>
              \/ alert_calls("send_message", TRUE) # {}
              \/ probe.log # << >>

\* C12: no failing cycle ends the scan loop: whatever a cycle's fetch,
\* settings load, ledger access or delivery raised, the loop is back at its
\* sleep, from where the next cycle starts, again and again.
C12_LoopNeverEnds == []<>(pc = "sleep")

\* A delivery raised in a cycle of handlers.scanner_loop, the except clause
\* at the loop boundary caught it and the loop sleeps before its next cycle.
C12_Witness == impl = "handlers" /\ pc = "sleep" /\ outcome = "failed"

\* The scanner_loop tasks of the event loop.
scan_loop_tasks == {i \in 1..Len(probe.tasks) : probe.tasks[i].coro = "scanner_loop"}

\* C13: at most one scanner_loop task exists at any time, and exactly one
\* once start-up (main._on_startup with register_handlers) has completed.
C13_OneScanLoop ==
    /\ Cardinality(scan_loop_tasks) <= 1
    /\ probe.at = "started" => Cardinality(scan_loop_tasks) = 1

\* The response is what the adapter expects: status 200 and a JSON body
\* with the array of objects where the adapter looks for it.
well_formed(adapter, resp) ==
    LET b == resp.body
    IN  /\ resp.status = 200
        /\ \A i \in DOMAIN b.elems : b.elems[i].json = "object"
        /\ CASE adapter = "tonapi" ->
                  b.shape = "object" /\ b.is_list /\ b.key \in {"orders", "items", "nft_items"}
             [] adapter = "getgems" ->
                  b.shape = "object" /\ b.is_list /\ b.key = "data.orders"
             [] OTHER ->
                  \/ b.shape = "list"
                  \/ b.shape = "object" /\ b.is_list /\ b.key = "items"

\* C14: an adapter whose every request met a network error, a non-200
\* status, an unparsable body or an unexpected response shape returns the
\* empty list.
C14_FailureGivesEmptyList ==
    (/\ probe.returned.done
     /\ \A i \in 1..2 : ~well_formed(probe.adapter, probe.resps[i]))
        => probe.returned.items = << >>

\* C16: every listing _fetch_from_tonapi or _fetch_from_getgems returns is
\* a sale with a known price.
C16_OnlyPricedSales ==
    (probe.returned.done /\ probe.adapter \in {"tonapi", "getgems"}) =>
        \A i \in DOMAIN probe.returned.items :
            probe.returned.items[i].price_ton # Null

\* The (provider, representation) pairs requested so far.
tx_requested ==
    [i \in DOMAIN probe.requests |->
        [provider |-> probe.requests[i].provider, acc |-> probe.requests[i].acc]]

\* C15: list_recent makes its requests in the fixed order of the plan,
\* makes none after the first that returned data, returns that
\* representation's items alone, and returns the empty list only when every
\* representation has been tried.
C15_FirstDataWinsEmptyLast ==
    LET plan == tx_plan(probe.address, probe.forms)
        n == Len(probe.requests)
    IN  /\ n <= Len(plan) /\ tx_requested = SubSeq(plan, 1, n)
        /\ \A i \in 1..n - 1 : probe.requests[i].answer = "none"
        /\ (n > 0 /\ probe.requests[n].answer = "items") =>
              probe.returned.items =
                  <<[provider |-> probe.requests[n].provider, acc |-> probe.requests[n].acc]>>
        /\ (probe.returned.done /\ ~probe.returned.raised /\ probe.returned.items = << >>) =>
              (n = Len(plan) /\ \A i \in 1..n : probe.requests[i].answer = "none")

\* The adapter outputs in concatenation order, TonAPI first.
concatenated == probe.tonapi_items \o probe.getgems_items

\* The positions of the concatenation that hold the first occurrence of
\* their identity.
first_occurrences ==
    {i \in DOMAIN concatenated :
        \A j \in 1..i - 1 : hash_deal(concatenated[j]) # hash_deal(concatenated[i])}

identities(batch) == {hash_deal(batch[i]) : i \in DOMAIN batch}

\* C17: the merged batch holds no two listings of one identity; it is the
\* first occurrence of every identity of the concatenation (TonAPI before
\* Getgems), in the order of the concatenation.
C17_FirstOccurrenceKept ==
    probe.calls >= 1 =>
        /\ \A i, j \in DOMAIN probe.merged :
              hash_deal(probe.merged[i]) = hash_deal(probe.merged[j]) => i = j
        /\ Len(probe.merged) = Cardinality(first_occurrences)
        /\ \A k \in DOMAIN probe.merged :
              \E i \in first_occurrences :
                  /\ probe.merged[k] = concatenated[i]
                  /\ Cardinality({j \in first_occurrences : j < i}) = k - 1

\* Merged: TonAPI returned G1 and T2, Getgems returned G2 (the identity of
\* G1 under another url) and G3.
C17_Witness ==
    /\ probe.calls >= 1
    /\ probe.tonapi_items = <<G1, T2>> /\ probe.getgems_items = <<G2, G3>>
    /\ probe.merged = <<G1, T2, G3>>

\* C18: merging the merged batch again, or the same adapter outputs taken
\* twice, gives the identities of the merged batch.
C18_MergeIdempotent ==
    probe.calls = 2 =>
        /\ identities(probe.remerged) = identities(probe.merged)
        /\ identities(probe.twice) = identities(probe.merged)

\* Both further merges were run on adapter outputs that held a duplicate.
C18_Witness ==
    /\ probe.calls = 2
    /\ Len(probe.merged) < Len(concatenated)
    /\ Len(probe.merged) >= 2
    /\ probe.remerged = probe.merged

\* The positive prices the batch holds for a collection.
positive_prices(batch, collection) ==
    {batch[i].price_ton : i \in {j \in DOMAIN batch :
        batch[j].collection = collection /\ batch[j].price_ton > 0}}

Minimum(S) == CHOOSE p \in S : \A q \in S : p <= q

\* C19: a listing of the merged batch that came without a floor has the
\* least positive price of its collection in the batch as its floor, and
\* its discount is the one computed from that floor.
C19_FloorFromBatch ==
    probe.calls >= 1 =>
        \A i \in DOMAIN probe.merged :
            LET d == probe.merged[i]
                prices == positive_prices(probe.merged, d.collection)
                was_missing == \E c \in DOMAIN concatenated :
                                  /\ hash_deal(concatenated[c]) = hash_deal(d)
                                  /\ concatenated[c].fair_price_ton = Null
            IN  (was_missing /\ prices # {}) =>
                    /\ d.fair_price_ton = Minimum(prices)
                    /\ calc_discount_pct(d) =
                          Max(0, ((Minimum(prices) - PriceOrZero(d)) * 100)
                                    \div Minimum(prices))

\* (floor - price) / floor * 100, not below zero.
clamped_discount(price, floor) == Max(0, ((floor - price) * 100) \div floor)

\* C20: for a listing with floor > 0 and price > 0, _calc_discount_pct and
\* _item_discount both return (floor - price) / floor * 100 clamped at
\* zero, also when the price is over the floor and when the source supplies
\* a discount of its own.
C20_DiscountFromFloorClamped ==
    LET l == probe.listing
    IN  (l.floor_ton > 0 /\ l.price_ton > 0) =>
            /\ probe.calc # << >> =>
                  probe.calc[1] = clamped_discount(l.price_ton, l.fair_price_ton)
            /\ probe.item # << >> =>
                  probe.item[1] = <<clamped_discount(l.price_ton, l.floor_ton)>>

(***************************************************************************)
(* The filters, SpecFilter.                                                *)
(***************************************************************************)
price_known(l) == l.price_ton \notin {Null, Missing}

\* The listing's discount where it is not in dispute: the source's figure
\* when there is no floor, the figure computed from price and floor when the
\* source gives none, and << >> (unknown) when there is neither.
undisputed_discount(l) ==
    IF l.discount # Null /\ l.floor_ton = Null THEN <<l.discount>>
    ELSE IF l.discount = Null /\ l.floor_ton # Null /\ price_known(l)
      THEN <<((l.floor_ton - l.price_ton) * 100) \div l.floor_ton>>
    ELSE << >>

discount_undisputed(l) ==
    \/ undisputed_discount(l) # << >>
    \/ l.discount = Null /\ (l.floor_ton = Null \/ ~price_known(l))

\* the other filters let the listing through: no ceiling, any collection,
\* not stale
only_discount_filter(p) ==
    /\ p.st.max_price_ton = Null
    /\ p.st.collections = {}
    /\ item_fresh_enough(p.listing)

\* C21: with only the discount filter in play, a listing with a known
\* discount passes each matcher exactly when the discount is at least
\* min_discount, and a listing with an unknown discount passes exactly when
\* min_discount <= 0.
C21_DiscountFilter ==
    (only_discount_filter(probe) /\ discount_undisputed(probe.listing)) =>
       LET disc == undisputed_discount(probe.listing)
           expected == IF disc # << >> THEN disc[1] >= probe.st.min_discount
                       ELSE probe.st.min_discount <= 0
       IN  /\ probe.scanner # << >> => probe.scanner[1] = expected
           /\ probe.item # << >> => probe.item[1] = expected

without_ceiling(s) == [s EXCEPT !.max_price_ton = Null]

\* C22: with max_price set, a listing whose price is unknown (null or
\* absent) is rejected by each matcher whatever its discount, and a listing
\* with a known price passes exactly when price <= max_price and the other
\* filters let it through.
C22_PriceCeiling ==
    LET l == probe.listing
        stt == probe.st
    IN  stt.max_price_ton # Null =>
          /\ probe.scanner # << >> =>
               probe.scanner[1] = (/\ price_known(l)
                                   /\ l.price_ton <= stt.max_price_ton
                                   /\ passes_filters(l, without_ceiling(stt)))
          /\ probe.item # << >> =>
               probe.item[1] = (/\ price_known(l)
                                /\ l.price_ton <= stt.max_price_ton
                                /\ item_matches(l, without_ceiling(stt)))

collection_known(l) == Truthy(l.collection)

\* C23: with a non-empty collection allow-list, a listing passes a matcher
\* only when its collection is on the list, compared without regard to case;
\* a listing whose collection is empty or unknown is rejected.
C23_CollectionAllowList ==
    LET l == probe.listing
        allowed == {Lower(c) : c \in probe.st.collections}
        member == collection_known(l) /\ Lower(l.collection) \in allowed
    IN  probe.st.collections # {} =>
          /\ probe.scanner # << >> => (probe.scanner[1] => member)
          /\ probe.item # << >> => (probe.item[1] => member)

stale(l) == l.listed_at \notin {Null, BadNumber}
            /\ NowMin - l.listed_at > SCAN_LOOKBACK_MIN

C26_MonotoneInThreshold ==
    /\ probe.scanner # << >> => (probe.scanner[2] => probe.scanner[1])
    /\ probe.item # << >> => (probe.item[2] => probe.item[1])

\* both matchers asked about a listing that the lower threshold admits and
\* the higher one does not
C26_Witness ==
    /\ probe.higher > probe.st.min_discount
    /\ probe.scanner = <<TRUE, FALSE>>
    /\ probe.item = <<TRUE, FALSE>>

\* a ranks no worse than b: the higher discount first, then the lower price
ranks_no_worse(a, b) ==
    \/ calc_discount_pct(a) > calc_discount_pct(b)
    \/ /\ calc_discount_pct(a) = calc_discount_pct(b)
       /\ PriceOrZero(a) <= PriceOrZero(b)

\* C25: the candidates of a user are processed best first: while
\* _notify_user works through them, the candidates still to come are in
\* order of descending discount, then ascending price.
C25_BestFirst ==
    (impl = "scanner" /\ pc \in {"lookup", "send", "mark"}) =>
        \A i, j \in DOMAIN deals : i < j => ranks_no_worse(deals[i], deals[j])

\* C27: cold start: while the loop is in its first cycle after the process
\* started, no alert has been delivered; the first cycle only records
\* identities, and delivery starts with the second cycle.
C27_ColdStartSilent == first_cycle => alerted = {}

(***************************************************************************)
(* The pause between cycles, SpecSleep.                                    *)
(***************************************************************************)
\* the minimum of poll_seconds over the enabled users (each at the default,
\* none being stored), not below the floor of 10 seconds
min_poll_floored == Max(10, DefaultPollSeconds)

\* C28: the sleep between two cycles is never below 10 seconds, and with
\* enabled users it is the minimum of their poll_seconds, floored at 10.
C28_SleepFloored ==
    /\ probe.scanner # << >> =>
          /\ probe.scanner[1] >= 10
          /\ (probe.enabled > 0 /\ probe.db_ok) => probe.scanner[1] = min_poll_floored
    /\ probe.handlers # << >> =>
          /\ probe.handlers[1] >= 10
          /\ probe.enabled > 0 => probe.handlers[1] = min_poll_floored

\* C29: a user's settings record appears with the defaults (min_discount 25,
\* no max price, any collection), no step removes a record, and a step that
\* changes an enabled flag (scanner_on, scanner_off, verify) leaves every
\* settings record as it was.
C29_SettingsLifecycle ==
    [][/\ DOMAIN app_scanner_settings \subseteq DOMAIN app_scanner_settings'
       /\ \A u \in DOMAIN app_scanner_settings' \ DOMAIN app_scanner_settings :
              app_scanner_settings'[u] = DefaultSettings
       /\ app_users' # app_users => app_scanner_settings' = app_scanner_settings]_vars

\* a user with changed settings has been switched off since
C29_Witness ==
    \E u \in DOMAIN app_scanner_settings :
        /\ app_scanner_settings[u] # DefaultSettings
        /\ ~app_users[u]

(***************************************************************************)
(* The configuration commands, SpecConfig.                                 *)
(***************************************************************************)
\* the argument is not a number, or a number outside the command's range
argument_refused ==
    \/ probe.command = "set_discount"
         /\ (probe.arg = BadNumber \/ probe.arg < 0 \/ probe.arg > 100)
    \/ probe.command = "set_maxprice"
         /\ probe.arg # Null /\ (probe.arg = BadNumber \/ probe.arg <= 0)

\* C30: after any sequence of configuration commands every stored
\* min_discount lies in [0, 100] and every stored max_price_ton is null or
\* positive; a /set_discount or /set_maxprice with an out-of-range or
\* non-numeric argument leaves the stored settings as they were.
C30_SettingsInRange ==
    /\ \A u \in DOMAIN probe.after :
          /\ probe.after[u].min_discount >= 0
          /\ probe.after[u].min_discount <= 100
          /\ probe.after[u].max_price_ton = Null \/ probe.after[u].max_price_ton > 0
    /\ argument_refused => probe.after = probe.before

\* C32: in scanner._notify_user every delivery attempt, delivered or failed,
\* leaves the deal's identity in the ledger once the mark step is over, and
\* no attempt is made for an identity the ledger holds; so a deal whose
\* delivery failed is not attempted again while its identity is unchanged.
C32_MarkedAfterEveryAttempt ==
    [][/\ (impl = "scanner" /\ pc = "mark")
             => was_deal_seen(app_found_deals', hash_deal(cur_deal))
       /\ (impl = "scanner" /\ pc = "send")
             => ~was_deal_seen(app_found_deals, hash_deal(cur_deal))]_vars

\* C33: fan-out in scanner_tick.  In the first cycle after the start the
\* ledger was empty when the cycle began, so every listing of the batch was
\* not yet seen: each candidate of each enabled user, below the per-user cap,
\* goes on from the lookup to a delivery attempt.
C33_FanOut ==
    [][(impl = "scanner" /\ first_cycle /\ pc = "lookup" /\ deals # << >>
           /\ sent < MAX_DEALS_PER_USER)
         => pc' = "send"]_vars

\* C34: the per-user cap of _notify_user, for the one enabled user of
\* SpecCap: in one tick at most MAX_DEALS_PER_USER messages are delivered and
\* at most MAX_DEALS_PER_USER delivery attempts are made, and once the cap is
\* reached the tick records nothing for the candidates left.
C34_PerUserCap ==
    [][/\ sent' <= MAX_DEALS_PER_USER
       /\ Cardinality(attempted') <= MAX_DEALS_PER_USER
       /\ (pc = "lookup" /\ sent >= MAX_DEALS_PER_USER)
             => app_found_deals' = app_found_deals]_vars

(***************************************************************************)
(* Two scan loops on one database, SpecTwoLoops.                           *)
(***************************************************************************)
\* C35: under every interleaving of the two handlers.scanner_loop tasks a
\* user is delivered at most one alert per item_id: for each (user_id,
\* item_id) the insert of mark_sent goes through in one task at most, and
\* only a task whose insert went through sends.
C35_OneAlertPerItem ==
    /\ \A p \in DOMAIN probe.alerts : probe.alerts[p] <= 1
    /\ \A a, b \in probe.inserted_by : (a[2] = b[2] /\ a[3] = b[3]) => a[1] = b[1]
    /\ probe.delivered_by \subseteq probe.inserted_by

\* both tasks have delivered, and one of them stands, in the middle of its
\* cycle, before a (user_id, item_id) that the other one inserted
C35_Witness ==
    /\ \E a, b \in probe.delivered_by : a[1] # b[1]
    /\ \E i \in LoopTasks, a \in probe.inserted_by :
          /\ a[1] # i
          /\ probe.tasks[i].pc = "h_item"
          /\ probe.tasks[i].deals # << >>
          /\ a[2] = Head(probe.tasks[i].users)
          /\ a[3] = item_id_of(Head(probe.tasks[i].deals))

\* C36: in handlers.scanner_loop, outside the moment between mark_sent and
\* the send it allows, every (user_id, item_id) in app_scanner_sent belongs
\* to an alert that was delivered to that user.
C36_RecordedMeansDelivered ==
    (impl = "handlers" /\ pc # "h_send") =>
        \A p \in app_scanner_sent :
            \E a \in alerted : a[1] = p[1] /\ item_id_of(a[2]) = p[2]

\* the command was answered as updated
acknowledged ==
    /\ probe.command \in {"set_discount", "set_maxprice", "set_collections"}
    /\ ~argument_refused

\* C37: settings round trip: after a /set_discount, /set_maxprice or
\* /set_collections that was acknowledged as updated, the next
\* get_or_create_scanner_settings of that user, with or without a settings
\* row before the command, returns the value just set (a max price being
\* counted in tenths of the column's last decimal when given and in units of
\* it when read).
C37_SettingsRoundTrip ==
    acknowledged =>
       LET read == settings_of(probe.after, probe.user)
       IN  CASE probe.command = "set_discount" -> read.min_discount = probe.arg
             [] probe.command = "set_maxprice" ->
                   IF probe.arg = Null THEN read.max_price_ton = Null
                   ELSE read.max_price_ton # Null /\ read.max_price_ton * 10 = probe.arg
             [] probe.command = "set_collections" -> read.collections = probe.arg

\* an incoming transfer of the wallet with exactly this comment and at least
\* the minimum amount is among the wallet's transactions
incoming_transfer_for(comment) ==
    \E k \in DOMAIN probe.chain :
        /\ probe.chain[k].in_msg.comment = comment
        /\ probe.chain[k].in_msg.amount # Null
        /\ probe.chain[k].in_msg.amount >= MIN_PAYMENT_TON

\* C31: /verify sets a payment record to 'paid' only if the wallet's
\* transactions contain an incoming transfer whose comment equals the
\* record's comment and whose amount is at least MIN_PAYMENT_TON; a message
\* the wallet sent out never confirms a payment.
C31_PaidOnlyByIncoming ==
    [][\A r \in DOMAIN probe.app_payments :
          (probe.app_payments[r].status # "paid" /\ probe'.app_payments[r].status = "paid")
              => incoming_transfer_for(probe.app_payments[r].comment)]_vars

\* the /verify handler about to write record r, with what its search gave
writer_of(r, pc_) ==
    {i \in VerifyTasks : probe.tasks[i].pc = pc_ /\ probe.tasks[i].row = r}

\* a step leaves a paid record paid, with the transaction it had
paid_absorbing(r) ==
    probe.app_payments[r].status = "paid" =>
        /\ probe'.app_payments[r].status = "paid"
        /\ probe'.app_payments[r].tx_hash = probe.app_payments[r].tx_hash

\* a step that makes a record 'expired' is the write of a handler whose
\* search found nothing, on a record older than PAYMENT_TTL_MIN
expired_only_unfound_and_old(r) ==
    (probe.app_payments[r].status # "expired" /\ probe'.app_payments[r].status = "expired") =>
        /\ \E i \in writer_of(r, "expired") : probe.tasks[i].found = NotFound
        /\ PayTimes[probe.now] - probe.app_payments[r].created_at > PAYMENT_TTL_MIN

\* a step that makes a record 'paid' is the write of a handler whose search
\* found a transaction of the wallet, and records that transaction
paid_only_found(r) ==
    (probe.app_payments[r].status # "paid" /\ probe'.app_payments[r].status = "paid") =>
        \E i \in writer_of(r, "paid") :
            /\ probe.tasks[i].found # NotFound
            /\ probe'.app_payments[r].tx_hash = probe.tasks[i].found.tx_id
            /\ \E k \in DOMAIN probe.chain :
                  /\ probe.chain[k].id = probe.tasks[i].found.tx_id
                  /\ first_match(msgs_of(probe.chain[k]),
                                 strip_lower(probe.app_payments[r].comment),
                                 MIN_PAYMENT_TON) # Null

\* C38: in the payment table 'paid' is absorbing (no step of /verify
\* changes the status or the tx_hash of a paid record), a record becomes
\* 'expired' only when the search found no matching transfer and the record
\* is older than PAYMENT_TTL_MIN, and a record becomes 'paid' only with a
\* matching transfer found.
C38_PaymentLifecycle ==
    [][\A r \in DOMAIN probe.app_payments :
          /\ paid_absorbing(r)
          /\ expired_only_unfound_and_old(r)
          /\ paid_only_found(r)]_vars

\* C39: one transaction confirms at most one payment record: no two
\* distinct records of app_payments are 'paid' with the same tx_hash.
C39_OneTransferOneRecord ==
    \A r1, r2 \in DOMAIN probe.app_payments :
        (/\ r1 # r2
         /\ probe.app_payments[r1].status = "paid"
         /\ probe.app_payments[r2].status = "paid")
            => probe.app_payments[r1].tx_hash # probe.app_payments[r2].tx_hash

====
